---- MODULE Spec2Model ----
(***************************************************************************)
(* Orbital-position fallback engine of the Solar System Viewer backend     *)
(* (server/main.py): the body registry, generate_orbital_positions with    *)
(* its recursion on the parent of a moon, generate_moon_positions, the     *)
(* Kepler solution inlined in their loops, the fetch-then-fallback policy  *)
(* of fetch_horizons_vectors, and the ephem handler with its cache.        *)
(*                                                                         *)
(* Representation.                                                         *)
(*  - An instant is a number of hours since the epoch 2000-01-01T00:00:00, *)
(*    with the seconds and microseconds into that hour.                    *)
(*  - A start/stop text is a record [form, n]: "date" is YYYY-MM-DD (n the *)
(*    day number), "naive" is YYYY-MM-DDTHH:00:00 (n the hour), "aware" is *)
(*    the same with a +00:00 offset, "bad" is a text fromisoformat rejects.*)
(*    A text off the hour has the fields s and us beside them.             *)
(*  - A step text is a tuple of one-character strings; the number in it is *)
(*    kept as the decimal number that is written, digit by digit.          *)
(*  - The trigonometric results are not computed: a vector is a formal sum *)
(*    (a tuple) of terms <<kind, key, hour>>; "pos" is the inclined Kepler *)
(*    position of a registry body at an instant, "vel" its polar velocity, *)
(*    "axis" the vector (a, 0, 0) for the semi-major axis literal a,       *)
(*    "live" a vector read from a Horizons row. <<>> is (0, 0, 0).         *)
(*  - Registry numbers are scaled integers (e * 10^6, i * 10^3,            *)
(*    period * 10^4); a is kept as the decimal literal of the source.      *)
(***************************************************************************)
EXTENDS Integers, Sequences, FiniteSets, TLC

VARIABLES body_id, start, stop, step, stack, status, result, log,
          call, req, response, fpc, fresult,
          cache, now, ereq, epc, ids, expanded_ids, out, eresponse, suspended,
          active, kepler

vars == <<body_id, start, stop, step, stack, status, result, log,
          call, req, response, fpc, fresult,
          cache, now, ereq, epc, ids, expanded_ids, out, eresponse, suspended,
          active, kepler>>

genArgs == <<body_id, start, stop, step>>

fetchVars == <<req, response, fpc, fresult>>

\* The state of the ephem handler: the cache, the clock, and for every
\* request under way its parameters, its position and its local lists.
ephemVars ==
  <<cache, now, ereq, epc, ids, expanded_ids, out, eresponse, suspended, active>>

-----------------------------------------------------------------------------
(* The registry.                                                           *)

CELESTIAL_OBJECTS ==
  "10" :> [name |-> "Sun", type |-> "star", parent |-> "", a |-> "0.0", e |-> 0, i |-> 0, period |-> 0, moons |-> <<>>] @@
  "199" :> [name |-> "Mercury", type |-> "planet", parent |-> "", a |-> "57909050.0", e |-> 205600, i |-> 7000, period |-> 879700, moons |-> <<>>] @@
  "299" :> [name |-> "Venus", type |-> "planet", parent |-> "", a |-> "108208000.0", e |-> 6700, i |-> 3390, period |-> 2247000, moons |-> <<>>] @@
  "399" :> [name |-> "Earth", type |-> "planet", parent |-> "", a |-> "149597870.7", e |-> 16700, i |-> 0, period |-> 3652500, moons |-> <<"301">>] @@
  "301" :> [name |-> "Moon", type |-> "moon", parent |-> "399", a |-> "384400.0", e |-> 54900, i |-> 5145, period |-> 273200, moons |-> <<>>] @@
  "499" :> [name |-> "Mars", type |-> "planet", parent |-> "", a |-> "227939200.0", e |-> 93500, i |-> 1850, period |-> 6869800, moons |-> <<"401", "402">>] @@
  "401" :> [name |-> "Phobos", type |-> "moon", parent |-> "499", a |-> "421800.0", e |-> 15100, i |-> 1075, period |-> 3189, moons |-> <<>>] @@
  "402" :> [name |-> "Deimos", type |-> "moon", parent |-> "499", a |-> "23463.0", e |-> 200, i |-> 930, period |-> 12624, moons |-> <<>>] @@
  "599" :> [name |-> "Jupiter", type |-> "planet", parent |-> "", a |-> "778299000.0", e |-> 48900, i |-> 1310, period |-> 43325900, moons |-> <<"501", "502", "503", "504">>] @@
  "501" :> [name |-> "Io", type |-> "moon", parent |-> "599", a |-> "421800.0", e |-> 4100, i |-> 36, period |-> 17691, moons |-> <<>>] @@
  "502" :> [name |-> "Europa", type |-> "moon", parent |-> "599", a |-> "671100.0", e |-> 9400, i |-> 466, period |-> 35512, moons |-> <<>>] @@
  "503" :> [name |-> "Ganymede", type |-> "moon", parent |-> "599", a |-> "1070400.0", e |-> 1300, i |-> 177, period |-> 71546, moons |-> <<>>] @@
  "504" :> [name |-> "Callisto", type |-> "moon", parent |-> "599", a |-> "1882700.0", e |-> 7400, i |-> 192, period |-> 166890, moons |-> <<>>] @@
  "699" :> [name |-> "Saturn", type |-> "planet", parent |-> "", a |-> "1426666000.0", e |-> 56500, i |-> 2490, period |-> 107592200, moons |-> <<"601", "602", "603", "604", "605", "606", "607", "608">>] @@
  "601" :> [name |-> "Titan", type |-> "moon", parent |-> "699", a |-> "1221870.0", e |-> 28800, i |-> 348, period |-> 159454, moons |-> <<>>] @@
  "602" :> [name |-> "Enceladus", type |-> "moon", parent |-> "699", a |-> "238020.0", e |-> 4700, i |-> 9, period |-> 13702, moons |-> <<>>] @@
  "799" :> [name |-> "Uranus", type |-> "planet", parent |-> "", a |-> "2870658000.0", e |-> 45700, i |-> 770, period |-> 306885000, moons |-> <<"701", "702", "703", "704", "705">>] @@
  "899" :> [name |-> "Neptune", type |-> "planet", parent |-> "", a |-> "4498396000.0", e |-> 11300, i |-> 1770, period |-> 601820000, moons |-> <<"801">>] @@
  "801" :> [name |-> "Triton", type |-> "moon", parent |-> "899", a |-> "354759.0", e |-> 16, i |-> 156885, period |-> -58769, moons |-> <<>>] @@
  "999" :> [name |-> "Pluto", type |-> "dwarf_planet", parent |-> "", a |-> "5906440628.0", e |-> 248800, i |-> 17160, period |-> 905200000, moons |-> <<"901">>] @@
  "901" :> [name |-> "Charon", type |-> "moon", parent |-> "999", a |-> "19591.0", e |-> 200, i |-> 80, period |-> 63872, moons |-> <<>>]

RegistryIds == DOMAIN CELESTIAL_OBJECTS

-----------------------------------------------------------------------------
(* Python text and number helpers, as the generator uses them. A text is   *)
(* the tuple of its characters, one string each.                           *)

\* The decimal digits float() reads (lines 478-480, 560-562): the ASCII
\* digits and the decimal digits of the other scripts, ten to a script, each
\* run in the order 0 to 9. After the ASCII digits come the runs from
\* U+06F0 (Extended Arabic-Indic), U+07C0 (NKo), U+09E6 (Bengali), U+0AE6
\* (Gujarati), U+0BE6 (Tamil), U+0CE6 (Kannada), U+0DE6 (Sinhala), U+0ED0
\* (Lao), U+1090 (Myanmar Shan), U+17E0 (Khmer), U+19D0 (New Tai Lue),
\* U+1A80 and U+1A90 (Tai Tham), U+1BB0 (Sundanese), U+A8D0 (Saurashtra),
\* U+A9D0 (Javanese), U+A9F0 (Myanmar Tai Laing) and U+ABF0 (Meetei Mayek).
\* Python reads the digits of 47 more scripts the same way (Arabic-Indic
\* from U+0660, Devanagari from U+0966, the fullwidth digits from U+FF10
\* and others), which no string of this module can hold.
DigitRuns ==
  {"0123456789",
   "۰۱۲۳۴۵۶۷۸۹",
   "߀߁߂߃߄߅߆߇߈߉",
   "০১২৩৪৫৬৭৮৯",
   "૦૧૨૩૪૫૬૭૮૯",
   "௦௧௨௩௪௫௬௭௮௯",
   "೦೧೨೩೪೫೬೭೮೯",
   "෦෧෨෩෪෫෬෭෮෯",
   "໐໑໒໓໔໕໖໗໘໙",
   "႐႑႒႓႔႕႖႗႘႙",
   "០១២៣៤៥៦៧៨៩",
   "᧐᧑᧒᧓᧔᧕᧖᧗᧘᧙",
   "᪀᪁᪂᪃᪄᪅᪆᪇᪈᪉",
   "᪐᪑᪒᪓᪔᪕᪖᪗᪘᪙",
   "᮰᮱᮲᮳᮴᮵᮶᮷᮸᮹",
   "꣐꣑꣒꣓꣔꣕꣖꣗꣘꣙",
   "꧐꧑꧒꧓꧔꧕꧖꧗꧘꧙",
   "꧰꧱꧲꧳꧴꧵꧶꧷꧸꧹",
   "꯰꯱꯲꯳꯴꯵꯶꯷꯸꯹"}

Digits == {SubSeq(run, k, k) : run \in DigitRuns, k \in 1..10}

\* The value of a digit: its place in its run.
DigitVal ==
  [c \in Digits |->
     CHOOSE v \in 0..9 : \E run \in DigitRuns : SubSeq(run, v + 1, v + 1) = c]

\* c in s
Contains(s, c) == \E k \in 1..Len(s) : s[k] = c

\* s.replace(c, "")
Remove(s, c) == SelectSeq(s, LAMBDA x : x # c)

\* The separators U+001C to U+001F, written as the characters themselves:
\* whitespace for str.strip(), but not for float().
Separators == {"", "", "", ""}

\* The characters str.strip() takes for whitespace, as far as a string of
\* this module can hold them: blank, tab, line feed, carriage return, form
\* feed, and (written as the characters themselves) the vertical tab U+000B,
\* U+0085, U+00A0 and U+1680, and the separators. Python's set also has
\* U+2000 to U+200A, U+2028, U+2029, U+202F, U+205F and U+3000, which no
\* string of this module can hold.
Whitespace == {" ", "\t", "\n", "\r", "\f", "", "", " ", " "} \cup Separators

\* s without the characters of set at its ends
Trim(s, set) ==
  LET solid == {k \in 1..Len(s) : s[k] \notin set}
  IN  IF solid = {} THEN <<>>
      ELSE LET lo == CHOOSE k \in solid : \A m \in solid : k <= m
               hi == CHOOSE k \in solid : \A m \in solid : k >= m
           IN  SubSeq(s, lo, hi)

\* s.strip()
Strip(s) == Trim(s, Whitespace)

\* The first index of s that holds a character of set, or 0.
IndexOf(s, set) ==
  LET hits == {k \in 1..Len(s) : s[k] \in set}
  IN  IF hits = {} THEN 0 ELSE CHOOSE k \in hits : \A m \in hits : k <= m

\* c.lower() on the letters of "inf", "infinity" and "nan"
Lower(c) ==
  CASE c = "I" -> "i" [] c = "N" -> "n" [] c = "F" -> "f" [] c = "T" -> "t"
    [] c = "Y" -> "y" [] c = "A" -> "a" [] OTHER -> c

\* Digits with single underscores between them.
IsDigitPart(p) ==
  /\ p # <<>>
  /\ \A k \in 1..Len(p) : p[k] \in Digits \cup {"_"}
  /\ p[1] # "_"
  /\ p[Len(p)] # "_"
  /\ \A k \in 1..(Len(p) - 1) : ~(p[k] = "_" /\ p[k + 1] = "_")

\* The digit values of a digit part.
DigitsOf(p) ==
  LET ds == SelectSeq(p, LAMBDA c : c # "_")
  IN  [k \in 1..Len(ds) |-> DigitVal[ds[k]]]

\* A digit sequence without its leading zeros.
DropLeadingZeros[ds \in Seq(Nat)] ==
  LET solid == {k \in 1..Len(ds) : ds[k] # 0}
  IN  IF solid = {} THEN <<>>
      ELSE SubSeq(ds, CHOOSE k \in solid : \A m \in solid : k <= m, Len(ds))

\* The number of trailing zeros of a digit sequence.
TrailingZeros[ds \in Seq(Nat)] ==
  LET solid == {k \in 1..Len(ds) : ds[k] # 0}
  IN  IF solid = {} THEN Len(ds)
      ELSE Len(ds) - (CHOOSE k \in solid : \A m \in solid : k >= m)

\* The value of a short digit sequence.
DecimalValue[ds \in Seq(Nat)] ==
  IF ds = <<>> THEN 0
  ELSE 10 * DecimalValue[SubSeq(ds, 1, Len(ds) - 1)] + ds[Len(ds)]

\* The exponent float() takes from an exponent of more than nine digits
\* (leading zeros aside), whatever they are: 1100000000. A shorter exponent
\* is taken as it is written.
MaxAbsExp == 1100000000

\* The exponent of a float literal.
ExponentValue(neg, ds) ==
  LET d == DropLeadingZeros[ds]
      v == IF Len(d) > 9 THEN MaxAbsExp ELSE DecimalValue[d]
  IN  IF neg THEN 0 - v ELSE v

\* A float, as the decimal expansion of its value: digits (no leading or
\* trailing zero) times 10^exp, negative when neg; zero has no digit. kind is
\* "finite", "inf" or "nan". Every double has a finite decimal expansion.
Floats == [kind : {"finite", "inf", "nan"}, neg : BOOLEAN, digits : Seq(Nat), exp : Int]

Decimal[neg \in BOOLEAN, ds \in Seq(Nat), exp \in Int] ==
  LET d  == DropLeadingZeros[ds]
      tz == TrailingZeros[d]
  IN  IF d = <<>>
      THEN [kind |-> "finite", neg |-> neg, digits |-> <<>>, exp |-> 0]
      ELSE [kind |-> "finite", neg |-> neg,
            digits |-> SubSeq(d, 1, Len(d) - tz), exp |-> exp + tz]

Zero == Decimal[FALSE, <<>>, 0]

\* ds < other as decimal fractions 0.d1d2...
FractionLess[ds \in Seq(Nat), other \in Seq(Nat)] ==
  LET a(k)  == IF k <= Len(ds) THEN ds[k] ELSE 0
      b(k)  == IF k <= Len(other) THEN other[k] ELSE 0
      apart == {k \in 1..(Len(ds) + Len(other)) : a(k) # b(k)}
  IN  /\ apart # {}
      /\ LET first == CHOOSE k \in apart : \A m \in apart : k <= m
         IN  a(first) < b(first)

\* a < b for two positive numbers
Less[a \in Floats, b \in Floats] ==
  IF Len(a.digits) + a.exp # Len(b.digits) + b.exp
  THEN Len(a.digits) + a.exp < Len(b.digits) + b.exp
  ELSE FractionLess[a.digits, b.digits]

\* The digits of a natural number.
DigitsOfNat[n \in Nat] == IF n = 0 THEN <<>> ELSE DigitsOfNat[n \div 10] \o <<n % 10>>

\* The digits of ds * m + carry, for a small factor m: as many digits as ds
\* has, preceded by the digits of what is carried out of them. The right
\* half of a long sequence is multiplied first, and what it carries out goes
\* into the left half.
MulCarry[ds \in Seq(Nat), m \in Nat, carry \in Nat] ==
  IF ds = <<>> THEN DigitsOfNat[carry]
  ELSE IF Len(ds) = 1
  THEN LET p == ds[1] * m + carry
       IN  DigitsOfNat[p \div 10] \o <<p % 10>>
  ELSE LET cut   == Len(ds) \div 2
           right == MulCarry[SubSeq(ds, cut + 1, Len(ds)), m, carry]
           over  == Len(right) - (Len(ds) - cut)
       IN  MulCarry[SubSeq(ds, 1, cut), m, DecimalValue[SubSeq(right, 1, over)]]
             \o SubSeq(right, over + 1, Len(right))

\* d * m * 10^shift, for a positive number d and a small factor m
Times(d, m, shift) == Decimal[FALSE, MulCarry[d.digits, m, 0], d.exp + shift]

Zeros(n) == [k \in 1..n |-> 0]

\* The digits of a finite number before and behind the point.
Split(v) ==
  LET n   == Len(v.digits) + v.exp
      all == IF v.exp > 0 THEN v.digits \o Zeros(v.exp) ELSE v.digits
  IN  IF n > 0 THEN <<SubSeq(all, 1, n), SubSeq(all, n + 1, Len(all))>>
      ELSE <<<<>>, Zeros(0 - n) \o all>>

\* 2^32, 2^52, 2^53 and 2^62: a double has a significand of 53 bits.
TwoTo ==
  32 :> Decimal[FALSE, <<4, 2, 9, 4, 9, 6, 7, 2, 9, 6>>, 0] @@
  52 :> Decimal[FALSE, <<4, 5, 0, 3, 5, 9, 9, 6, 2, 7, 3, 7, 0, 4, 9, 6>>, 0] @@
  53 :> Decimal[FALSE, <<9, 0, 0, 7, 1, 9, 9, 2, 5, 4, 7, 4, 0, 9, 9, 2>>, 0] @@
  62 :> Decimal[FALSE, <<4, 6, 1, 1, 6, 8, 6, 0, 1, 8, 4, 2, 7, 3, 8, 7, 9, 0, 4>>, 0]

\* A number with digits behind the point, rounded to a whole number, a tie
\* to the even one: its digits.
RoundHalfEven(v) ==
  LET ip   == Split(v)[1]
      fp   == Split(v)[2]
      half == <<5>>
      odd  == ip # <<>> /\ ip[Len(ip)] % 2 = 1
  IN  IF FractionLess[half, fp] \/ (~FractionLess[fp, half] /\ odd)
      THEN MulCarry[ip, 1, 1]
      ELSE ip

\* The step that brings a number standing for d * 2^(-k) towards 2^52..2^53,
\* where d is below `below' of the four powers of TwoTo:
\* <<factor, decimal shift, bits>>. A number below 2^52 is doubled (2^20 =
\* 1048576 at a time where that fits), one from 2^53 on is halved (times
\* 5^9 = 1953125 over 10^9 at a time), and <<1, 0, 0>> ends the scaling.
\* The last bit of the smallest doubles is worth 2^-1074: a number below the
\* smallest normal double stops at k = 1074.
Factor[below \in Nat, k \in Int] ==
  IF below >= 3 /\ k < 1074
  THEN IF below = 4 /\ k + 20 <= 1074 THEN <<1048576, 0, 20>> ELSE <<2, 0, 1>>
  ELSE IF below = 0 THEN <<1953125, -9, -9>>
  ELSE IF below = 1 THEN <<5, -1, -1>>
  ELSE <<1, 0, 0>>

\* m * 2^(-k) for a whole number m of at most 53 bits, inf when that is
\* beyond the largest double: the last bit of the largest double is worth
\* 2^971.
Unscale[m \in Floats, k \in Int] ==
  LET f == IF k >= 9 THEN <<1953125, -9, -9>>
           ELSE IF k > 0 THEN <<5, -1, -1>>
           ELSE IF k <= -20 THEN <<1048576, 0, 20>>
           ELSE <<2, 0, 1>>
  IN  IF 0 - k > 971 \/ (0 - k = 971 /\ m = TwoTo[53])
      THEN [kind |-> "inf", neg |-> FALSE, digits |-> <<>>, exp |-> 0]
      ELSE IF k = 0 THEN m
      ELSE Unscale[Times(m, f[1], f[2]), k + f[3]]

\* The double nearest to d * 2^(-k), for a positive number d, a tie to the
\* even significand: the number is scaled into 2^52..2^53, rounded to a whole
\* number and scaled back.
Scale[d \in Floats, k \in Int] ==
  LET f == Factor[Cardinality({n \in DOMAIN TwoTo : Less[d, TwoTo[n]]}), k]
  IN  IF f[1] = 1 THEN Unscale[Decimal[FALSE, RoundHalfEven(d), 0], k]
      ELSE Scale[Times(d, f[1], f[2]), k + f[3]]

\* The double nearest to a number: inf from 2^1024 - 2^970 on, and 0.0 up
\* to 2^-1075. A number of more than 310 digits before the point is inf
\* without more, one below 1e-330 is 0.0, and a whole number below 1e15 is
\* a double as it is.
NearestFloat[d \in Floats] ==
  LET n == Len(d.digits) + d.exp
  IN  IF d.kind # "finite" \/ d.digits = <<>> THEN d
      ELSE IF n > 310
      THEN [kind |-> "inf", neg |-> d.neg, digits |-> <<>>, exp |-> 0]
      ELSE IF n < -330
      THEN [kind |-> "finite", neg |-> d.neg, digits |-> <<>>, exp |-> 0]
      ELSE IF d.exp >= 0 /\ n <= 15 THEN d
      ELSE [Scale[[d EXCEPT !.neg = FALSE], 0] EXCEPT !.neg = d.neg]

\* float() of digits with an optional point, and of the exponent that was
\* found behind them: single underscores are allowed between two digits,
\* and a digit of any script counts as the ASCII digit of its value.
ParseNumber[neg \in BOOLEAN, mant \in Seq(STRING), hasExp \in BOOLEAN, eNeg \in BOOLEAN, eDigs \in Seq(STRING)] ==
  LET dot == IndexOf(mant, {"."})
      ip  == IF dot = 0 THEN mant ELSE SubSeq(mant, 1, dot - 1)
      fp  == IF dot = 0 THEN <<>> ELSE SubSeq(mant, dot + 1, Len(mant))
  IN  IF \/ ~(ip = <<>> \/ IsDigitPart(ip))
         \/ ~(fp = <<>> \/ IsDigitPart(fp))
         \/ (ip = <<>> /\ fp = <<>>)
         \/ (hasExp /\ ~IsDigitPart(eDigs))
      THEN [ok |-> FALSE, val |-> Zero]
      ELSE [ok |-> TRUE,
            val |-> NearestFloat[Decimal[neg, DigitsOf(ip) \o DigitsOf(fp),
                       (IF hasExp THEN ExponentValue(eNeg, DigitsOf(eDigs)) ELSE 0)
                       - Len(DigitsOf(fp))]]]

\* float() of a text without its sign: inf, infinity or nan in any case, or
\* a number with an optional exponent.
ParseUnsigned[neg \in BOOLEAN, rest \in Seq(STRING)] ==
  LET low   == [k \in 1..Len(rest) |-> Lower(rest[k])]
      ePos  == IndexOf(rest, {"e", "E"})
      expo  == SubSeq(rest, ePos + 1, Len(rest))
      eSign == expo # <<>> /\ expo[1] \in {"-", "+"}
  IN  IF low \in {<<"i", "n", "f">>, <<"i", "n", "f", "i", "n", "i", "t", "y">>}
      THEN [ok |-> TRUE, val |-> [kind |-> "inf", neg |-> neg, digits |-> <<>>, exp |-> 0]]
      ELSE IF low = <<"n", "a", "n">>
      THEN [ok |-> TRUE, val |-> [kind |-> "nan", neg |-> neg, digits |-> <<>>, exp |-> 0]]
      ELSE ParseNumber[neg, IF ePos = 0 THEN rest ELSE SubSeq(rest, 1, ePos - 1),
                       ePos # 0, eSign /\ expo[1] = "-",
                       IF eSign THEN Tail(expo) ELSE expo]

\* float(s): [ok, val]; ok is FALSE for a ValueError. Whitespace around the
\* text is ignored, a separator is not; then comes an optional sign and the
\* rest. val is the double
\* nearest to the number that is written.
ParseFloat[s \in Seq(STRING)] ==
  LET body   == Trim(s, Whitespace \ Separators)
      signed == body # <<>> /\ body[1] \in {"-", "+"}
  IN  ParseUnsigned[signed /\ body[1] = "-", IF signed THEN Tail(body) ELSE body]

\* x * 24 on floats: the double nearest to the product.
Times24(v) ==
  IF v.kind # "finite" THEN v
  ELSE NearestFloat[Decimal[v.neg, MulCarry[v.digits, 24, 0], v.exp]]

\* Long division of a digit sequence by a small divisor, from the remainder
\* rem of the digits to the left: <<quotient digits, remainder>>.
DivSmall[ds \in Seq(Nat), m \in Nat, rem \in Nat] ==
  IF ds = <<>> THEN <<<<>>, rem>>
  ELSE LET cur  == 10 * rem + ds[1]
           rest == DivSmall[Tail(ds), m, cur % m]
       IN  <<<<cur \div m>> \o rest[1], rest[2]>>

\* The largest number of days of a timedelta.
MaxDeltaDays == 999999999

\* A timedelta as Python keeps it: days of either sign, seconds in 0..86399
\* and microseconds in 0..999999; err names the exception of a value that
\* has no timedelta.
Deltas == [err : {"none", "ValueError", "OverflowError"}, days : Int, seconds : Nat, microseconds : Nat]

NoDelta == [err |-> "none", days |-> 0, seconds |-> 0, microseconds |-> 0]

\* The seconds and microseconds of the fraction of an hour with the digits
\* fracDs behind the point: <<digits of the seconds, microseconds>>. The
\* fraction times 3600000000.0 is a double of its own; what that has behind
\* the point is rounded half to even (the whole hours are an even number of
\* microseconds), up to 3600 seconds.
RoundMicro[fracDs \in Seq(Nat)] ==
  DivSmall[RoundHalfEven(NearestFloat[Decimal[FALSE, MulCarry[fracDs, 36, 0],
                                              8 - Len(fracDs)]]),
           1000000, 0]

\* The timedelta of whole hours dq = <<days digits, hours left>> and of the
\* seconds and microseconds fr, negated when neg.
Normalise[neg \in BOOLEAN, dq \in Seq(Nat) \X Nat, fr \in Seq(Nat) \X Nat] ==
  LET qd == DropLeadingZeros[dq[1]]
      s1 == dq[2] * 3600 + DecimalValue[fr[1]] + fr[2] \div 1000000
      d1 == DecimalValue[qd] + s1 \div 86400
      s2 == s1 % 86400
      u2 == fr[2] % 1000000
      \* -(d1, s2, u2) in Python's form
      borrowU == IF u2 > 0 THEN 1 ELSE 0
      borrowS == IF s2 + borrowU > 0 THEN 1 ELSE 0
  IN  IF Len(qd) > 9 THEN [NoDelta EXCEPT !.err = "OverflowError"]
      ELSE IF ~neg
      THEN IF d1 > MaxDeltaDays THEN [NoDelta EXCEPT !.err = "OverflowError"]
           ELSE [err |-> "none", days |-> d1, seconds |-> s2, microseconds |-> u2]
      ELSE IF d1 + borrowS > MaxDeltaDays THEN [NoDelta EXCEPT !.err = "OverflowError"]
           ELSE [err |-> "none",
                 days |-> 0 - d1 - borrowS,
                 seconds |-> (86400 * borrowS - s2 - borrowU) % 86400,
                 microseconds |-> (1000000 - u2) % 1000000]

\* timedelta(hours=v): err is "ValueError" for nan and "OverflowError" for
\* inf and for more than MaxDeltaDays days. The whole hours of the double v
\* are taken as they are, and its fraction goes through RoundMicro. From
\* 1e11 hours on the days are too many, and below 1e-10 hours the
\* microseconds round to none.
Timedelta(v) ==
  LET n == Len(v.digits) + v.exp
  IN  IF v.kind = "nan" THEN [NoDelta EXCEPT !.err = "ValueError"]
      ELSE IF v.kind = "inf" \/ n > 11 THEN [NoDelta EXCEPT !.err = "OverflowError"]
      ELSE IF v.digits = <<>> \/ n < -9 THEN NoDelta
      ELSE Normalise[v.neg, DivSmall[Split(v)[1], 24, 0], RoundMicro[Split(v)[2]]]

\* The default step of both generators, step_hours = 6.
DefaultStep == Decimal[FALSE, <<6>>, 0]

\* step_hours of a step with the letter unit in it, where f is what float()
\* makes of the step without the letter: as it is for "h" (line 478), times
\* 24 for "d" (line 480).
InHours(unit, f) ==
  IF unit = "h" THEN f ELSE [ok |-> f.ok, val |-> Times24(f.val)]

\* The step parsing of both generators (lines 477-482, 559-564): [ok, val];
\* ok is FALSE when float() raises ValueError, val is step_hours.
StepHours(s) ==
  IF ~Contains(s, "h") /\ ~Contains(s, "d")
  THEN [ok |-> TRUE, val |-> DefaultStep]
  ELSE InHours(IF Contains(s, "h") THEN "h" ELSE "d",
               ParseFloat[Strip(Remove(s, IF Contains(s, "h") THEN "h" ELSE "d"))])

-----------------------------------------------------------------------------
(* The windows and steps that are explored.                                *)

\* The last day of the long window: more than max_positions hours after the
\* start texts.
LongDay == 50

Text(form, n) == [form |-> form, n |-> n]

BadText == Text("bad", 0)

\* "garbage", "2000-01-02", "2000-01-02T00:00:00+00:00"
StartTexts == {BadText, Text("date", 1), Text("aware", 24)}

\* "garbage", "2000-01-01", "2000-01-02T00:00:00", "2000-01-03",
\* the long window's last day, "2000-01-03T00:00:00+00:00"
StopTexts == {BadText, Text("date", 0), Text("naive", 24), Text("date", 2),
              Text("date", LongDay), Text("aware", 48)}

\* Steps that run the loop to its cap: "0h", "-6h", "1e-10h" (less than half
\* a microsecond: a timedelta of zero), and "1h" on the long window.
CapSteps == {<<"0", "h">>, <<"-", "6", "h">>, <<"1", "e", "-", "1", "0", "h">>,
             <<"1", "h">>}

\* "6h", "1d", "6 h" (the default of the ephem request), "", "12",
\* "1 month", "daily", "1.5h", "\t.5d\n", ".7d" (16.799999999999997
\* hours), "nanh", "-Infinityh", "۱۲h" (12 hours, in Extended
\* Arabic-Indic digits), and the cap steps.
StepTexts == {<<"6", "h">>, <<"1", "d">>, <<"6", " ", "h">>, <<>>, <<"1", "2">>,
              <<"۱", "۲", "h">>,
              <<"1", " ", "m", "o", "n", "t", "h">>,
              <<"d", "a", "i", "l", "y">>,
              <<"1", ".", "5", "h">>, <<"\t", ".", "5", "d", "\n">>, <<".", "7", "d">>,
              <<"n", "a", "n", "h">>,
              <<"-", "I", "n", "f", "i", "n", "i", "t", "y", "h">>} \cup CapSteps

\* The windows at the ends of the datetime range, each with the step that
\* leaves the range: "9999-12-30" to "9999-12-31" at "1d", and "0001-01-01"
\* to "0001-01-02" at "-6h". "0001-01-01" to "2000-01-03" at "8760123.411h"
\* (a thousand years, whose double gives 600001 microseconds where the text
\* has 600000), and the whole range, "0001-01-01" to "9999-12-31", at
\* "87649415.999999999h" (whose double is 87649416.0, the hours of the range
\* and a day).
EdgeRuns ==
  {<<Text("date", 2921938), Text("date", 2921939), <<"1", "d">>>>,
   <<Text("date", -730119), Text("date", -730118), <<"-", "6", "h">>>>,
   <<Text("date", -730119), Text("date", 2),
     <<"8", "7", "6", "0", "1", "2", "3", ".", "4", "1", "1", "h">>>>,
   <<Text("date", -730119), Text("date", 2921939),
     <<"8", "7", "6", "4", "9", "4", "1", "5", ".", "9", "9", "9", "9", "9", "9", "9", "9", "9", "h">>>>}

\* The steps that are explored.
ExploredTexts == StepTexts \cup {run[3] : run \in EdgeRuns}

\* The steps that are explored with their step_hours, and the step_hours
\* with their timedeltas, each computed once.
ExploredSteps == [s \in ExploredTexts |-> StepHours(s)]

ExploredDeltas == [v \in {ExploredSteps[s].val : s \in ExploredTexts} |-> Timedelta(v)]

\* StepHours(s), looked up where s is a step that is explored.
ParsedStep(s) == IF s \in ExploredTexts THEN ExploredSteps[s] ELSE StepHours(s)

\* Timedelta(v), looked up where v is the step_hours of such a step.
StepTimedelta(v) == IF v \in DOMAIN ExploredDeltas THEN ExploredDeltas[v] ELSE Timedelta(v)

-----------------------------------------------------------------------------
(* Instants.                                                               *)

\* The hours of datetime.min (0001-01-01T00:00:00) and of the last hour of
\* datetime.max (9999-12-31T23:59:59.999999), counted from the epoch.
MinHour == -17522856

MaxHour == 70126559

\* The days from datetime.min to datetime.max.
RangeDays == 3652058

\* An instant is h hours, s seconds (0..3599) and us microseconds
\* (0..999999) after the epoch; tz tells an offset-aware value.
Datetimes == [tz : BOOLEAN, h : Int, s : Nat, us : Nat]

Instant(tz, h, s, us) == [tz |-> tz, h |-> h, s |-> s, us |-> us]

\* datetime.fromisoformat: [ok, tz, h, s, us]. A text that is not on the
\* hour carries its seconds and microseconds beside form and n.
FromIsoFormat(s) ==
  LET hours == IF s.form = "date" THEN 24 * s.n ELSE s.n
      fine  == "s" \in DOMAIN s
  IN  IF s.form \in {"date", "naive", "aware"} /\ hours >= MinHour /\ hours <= MaxHour
      THEN [ok |-> TRUE, tz |-> s.form = "aware", h |-> hours,
            s |-> IF fine THEN s.s ELSE 0, us |-> IF fine THEN s.us ELSE 0]
      ELSE [ok |-> FALSE, tz |-> FALSE, h |-> 0, s |-> 0, us |-> 0]

\* datetime.isoformat()
IsoFormat(dt) ==
  IF dt.s = 0 /\ dt.us = 0
  THEN [form |-> IF dt.tz THEN "aware" ELSE "naive", n |-> dt.h]
  ELSE [form |-> IF dt.tz THEN "aware" ELSE "naive", n |-> dt.h, s |-> dt.s, us |-> dt.us]

\* a <= b on datetimes is a TypeError when exactly one of them is aware.
Comparable(a, b) == a.tz = b.tz

\* a < b and a <= b on comparable datetimes
Earlier(a, b) ==
  \/ a.h < b.h
  \/ a.h = b.h /\ a.s < b.s
  \/ a.h = b.h /\ a.s = b.s /\ a.us < b.us

NotLater(a, b) == Earlier(a, b) \/ (a.h = b.h /\ a.s = b.s /\ a.us = b.us)

\* dt + d for a timedelta d: [err, t]; err is "OverflowError" when the sum
\* leaves datetime.min .. datetime.max.
DatetimeAdd[dt \in Datetimes, d \in Deltas] ==
  LET us  == dt.us + d.microseconds
      sec == dt.s + d.seconds + us \div 1000000
      h   == dt.h + 24 * d.days + sec \div 3600
  IN  IF d.days > RangeDays \/ d.days < 0 - RangeDays - 1 \/ h < MinHour \/ h > MaxHour
      THEN [err |-> "OverflowError", t |-> dt]
      ELSE [err |-> "none", t |-> Instant(dt.tz, h, sec % 3600, us % 1000000)]

\* current_time - datetime(2000, 1, 1) is a TypeError on an aware value.
EpochSubtractable(dt) == ~dt.tz

\* The value of a datetime local that is not bound yet: the hour before
\* datetime.min, which no datetime has.
NoTime == Instant(FALSE, MinHour - 1, 0, 0)

-----------------------------------------------------------------------------
(* Vectors and samples.                                                    *)

max_positions == 1000

Zero3 == <<>>

VecAdd(u, v) == u \o v

\* (a, 0, 0)
XAxis(a) == <<<<"axis", a, 0>>>>

\* The term of a body at an instant: <<kind, key, hour>> on the hour, with
\* the seconds and microseconds behind the hour otherwise.
Term(kind, key, t) ==
  IF t.s = 0 /\ t.us = 0 THEN <<kind, key, t.h>> ELSE <<kind, key, t.h, t.s, t.us>>

\* x, y_inclined, z_inclined of a registry body at instant t (mean anomaly,
\* five Kepler iterations, true anomaly, radius, inclination).
OrbitPosition(id, t) == <<Term("pos", id, t)>>

\* v_r, v_t, 0 of a registry body at instant t.
PolarVelocity(id, t) == <<Term("vel", id, t)>>

\* math.isfinite of the three position components. Every registry element is
\* a finite literal, |r| <= a * (1 + e) < 1.2e10 km and the mean anomaly of
\* any datetime is below 1e8 rad, so no component overflows.
PositionIsFinite(id, t) == id \in RegistryIds

\* The exceptions one planet iteration can raise, in the order of the code:
\* the epoch subtraction, the division by the period, the division by a.
PlanetIterationError(id, t) ==
  IF ~EpochSubtractable(t) THEN "TypeError"
  ELSE IF CELESTIAL_OBJECTS[id].period = 0 THEN "ZeroDivisionError"
  ELSE IF CELESTIAL_OBJECTS[id].a = "0.0" THEN "ZeroDivisionError"
  ELSE "none"

PlanetSample(id, t) ==
  [t |-> IsoFormat(t),
   r |-> IF PositionIsFinite(id, t) THEN OrbitPosition(id, t) ELSE Zero3,
   v |-> PolarVelocity(id, t)]

\* The sample of the except branch of generate_orbital_positions.
FallbackSample_Origin(id, startText) ==
  [t |-> startText, r |-> Zero3, v |-> Zero3]

FallbackSample(id, startText) ==
  [t |-> startText, r |-> XAxis(CELESTIAL_OBJECTS[id].a), v |-> Zero3]

MoonIterationError(id, t) ==
  IF ~EpochSubtractable(t) THEN "TypeError"
  ELSE IF CELESTIAL_OBJECTS[id].period = 0 THEN "ZeroDivisionError"
  ELSE "none"

\* Mutant: when no text is equal, the last parent sample is taken.
ParentLookup_OrLast(parent_positions, t) ==
  LET hits == {k \in 1..Len(parent_positions) : parent_positions[k].t = IsoFormat(t)}
  IN  IF hits = {} THEN Len(parent_positions)
      ELSE CHOOSE k \in hits : \A m \in hits : k <= m

\* The first parent sample whose text equals the moon instant's text: its
\* index, or 0 when there is none.
ParentLookup(parent_positions, t) ==
  LET hits == {k \in 1..Len(parent_positions) : parent_positions[k].t = IsoFormat(t)}
  IN  IF hits = {} THEN 0 ELSE CHOOSE k \in hits : \A m \in hits : k <= m

MoonSample(id, parent_pos, t) ==
  [t |-> IsoFormat(t),
   r |-> VecAdd(parent_pos.r, OrbitPosition(id, t)),
   v |-> Zero3]

\* except Exception: every exception the bodies raise derives from Exception.
Caught_ValueErrorOnly(exc) == exc = "ValueError"

Caught(exc) == exc \in {"ValueError", "TypeError", "ZeroDivisionError", "OverflowError"}

-----------------------------------------------------------------------------
(* Call frames.                                                            *)

NewFrame(fn, id, pc, parent_positions) ==
  [fn |-> fn, id |-> id, pc |-> pc, exc |-> "none",
   start_date |-> NoTime, stop_date |-> NoTime, step_hours |-> Zero,
   current_time |-> NoTime, position_count |-> 0, positions |-> <<>>,
   parent_positions |-> parent_positions]

Top == stack[Len(stack)]

Below == SubSeq(stack, 1, Len(stack) - 1)

Running(fn, pc) ==
  /\ status = "running"
  /\ stack # <<>>
  /\ Top.fn = fn
  /\ Top.pc = pc

Msg(text, id) == <<text, id>>

\* return value: the frame is popped; the caller, waiting in line 457, gets the
\* value, and the outermost return ends the call.
Return(value, lg) ==
  /\ log' = lg
  /\ IF Len(stack) = 1
     THEN /\ stack' = <<>>
          /\ status' = "returned"
          /\ result' = value
     ELSE /\ stack' = SubSeq(stack, 1, Len(stack) - 2) \o
                      <<[stack[Len(stack) - 1] EXCEPT !.pc = "got_parent",
                                                      !.parent_positions = value]>>
          /\ UNCHANGED <<status, result>>

\* An exception raised inside the try block of the top frame, whose locals
\* are those of f by then: the handler takes it when the except clause
\* matches, otherwise it leaves the call (the caller's line 457 is outside
\* any try block).
RaiseIn(f, exc) ==
  /\ UNCHANGED <<log, result>>
  /\ IF Caught(exc)
     THEN /\ stack' = Below \o <<[f EXCEPT !.pc = "except", !.exc = exc]>>
          /\ UNCHANGED status
     ELSE /\ stack' = <<>>
          /\ status' = "raised"

\* An exception raised before the statement has bound anything.
Raise(exc) == RaiseIn(Top, exc)

-----------------------------------------------------------------------------
(* generate_orbital_positions.                                             *)

\* Mutant: the recursion is made on the moon itself instead of its parent.
Dispatch_RecurseOnSelf ==
  /\ Running("gop", "entry")
  /\ IF Top.id \notin RegistryIds
     THEN Return(<<>>, Append(log, Msg("No orbital elements", Top.id)))
     ELSE LET obj == CELESTIAL_OBJECTS[Top.id]
          IN  IF obj.type = "moon"
              THEN IF obj.parent \notin RegistryIds
                   THEN Return(<<>>, Append(log, Msg("Parent not found", Top.id)))
                   ELSE /\ stack' = Below \o <<[Top EXCEPT !.pc = "await_parent"],
                                               NewFrame("gop", Top.id, "entry", <<>>)>>
                        /\ UNCHANGED <<status, result, log>>
              ELSE IF obj.type \notin {"planet", "dwarf_planet", "star"}
                   THEN Return(<<>>, Append(log, Msg("Unsupported object type", Top.id)))
                   ELSE /\ stack' = Below \o <<[Top EXCEPT !.pc = "try"]>>
                        /\ UNCHANGED <<status, result, log>>
  /\ UNCHANGED <<genArgs, call, fetchVars, ephemVars, kepler>>

\* Mutant: the registry is indexed without the membership test, and the
\* KeyError of an unknown id leaves the call.
Dispatch_UnknownRaises ==
  /\ Running("gop", "entry")
  /\ IF Top.id \notin RegistryIds
     THEN /\ stack' = <<>>
          /\ status' = "raised"
          /\ UNCHANGED <<result, log>>
     ELSE LET obj == CELESTIAL_OBJECTS[Top.id]
          IN  IF obj.type = "moon"
              THEN IF obj.parent \notin RegistryIds
                   THEN Return(<<>>, Append(log, Msg("Parent not found", Top.id)))
                   ELSE /\ stack' = Below \o <<[Top EXCEPT !.pc = "await_parent"],
                                               NewFrame("gop", obj.parent, "entry", <<>>)>>
                        /\ UNCHANGED <<status, result, log>>
              ELSE IF obj.type \notin {"planet", "dwarf_planet", "star"}
                   THEN Return(<<>>, Append(log, Msg("Unsupported object type", Top.id)))
                   ELSE /\ stack' = Below \o <<[Top EXCEPT !.pc = "try"]>>
                        /\ UNCHANGED <<status, result, log>>
  /\ UNCHANGED <<genArgs, call, fetchVars, ephemVars, kepler>>

\* Lines 443-469: the registry lookup, the recursion on the parent of a moon
\* and the test of the type.
Dispatch ==
  /\ Running("gop", "entry")
  /\ IF Top.id \notin RegistryIds
     THEN Return(<<>>, Append(log, Msg("No orbital elements", Top.id)))
     ELSE LET obj == CELESTIAL_OBJECTS[Top.id]
          IN  IF obj.type = "moon"
              THEN IF obj.parent \notin RegistryIds
                   THEN Return(<<>>, Append(log, Msg("Parent not found", Top.id)))
                   ELSE /\ stack' = Below \o <<[Top EXCEPT !.pc = "await_parent"],
                                               NewFrame("gop", obj.parent, "entry", <<>>)>>
                        /\ UNCHANGED <<status, result, log>>
              ELSE IF obj.type \notin {"planet", "dwarf_planet", "star"}
                   THEN Return(<<>>, Append(log, Msg("Unsupported object type", Top.id)))
                   ELSE /\ stack' = Below \o <<[Top EXCEPT !.pc = "try"]>>
                        /\ UNCHANGED <<status, result, log>>
  /\ UNCHANGED <<genArgs, call, fetchVars, ephemVars, kepler>>

\* Lines 458-462: an empty parent series ends the call; otherwise the value of
\* generate_moon_positions is returned as it is (the moon frame takes the
\* place of this one).
MoonCall ==
  /\ Running("gop", "got_parent")
  /\ IF Top.parent_positions = <<>>
     THEN Return(<<>>, log)
     ELSE /\ stack' = Below \o
                      <<NewFrame("gmp", Top.id, "try", Top.parent_positions)>>
          /\ UNCHANGED <<status, result, log>>
  /\ UNCHANGED <<genArgs, call, fetchVars, ephemVars, kepler>>

\* Lines 471-489 (and 553-568): both texts and the step are parsed, then the
\* loop variables are set. A text that does not parse raises after the
\* names before it were bound: start_date when stop fails, both dates when
\* the step fails.
ParseWindow ==
  \E sd \in {FromIsoFormat(start)}, ed \in {FromIsoFormat(stop)}, sh \in {ParsedStep(step)} :
    IF ~sd.ok THEN Raise("ValueError")
    ELSE IF ~ed.ok
    THEN RaiseIn([Top EXCEPT !.start_date = Instant(sd.tz, sd.h, sd.s, sd.us)],
                 "ValueError")
    ELSE IF ~sh.ok
    THEN RaiseIn([Top EXCEPT !.start_date = Instant(sd.tz, sd.h, sd.s, sd.us),
                             !.stop_date = Instant(ed.tz, ed.h, ed.s, ed.us)],
                 "ValueError")
    ELSE /\ stack' = Below \o
               <<[Top EXCEPT !.pc = "loop",
                             !.start_date = Instant(sd.tz, sd.h, sd.s, sd.us),
                             !.stop_date = Instant(ed.tz, ed.h, ed.s, ed.us),
                             !.step_hours = sh.val,
                             !.current_time = Instant(sd.tz, sd.h, sd.s, sd.us),
                             !.position_count = 0,
                             !.positions = <<>>]>>
         /\ UNCHANGED <<status, result, log>>

PlanetParse ==
  /\ Running("gop", "try")
  /\ ParseWindow
  /\ UNCHANGED <<genArgs, call, fetchVars, ephemVars, kepler>>

\* Mutant of the loop condition: position_count <= max_positions.
PlanetLoopCond_CountLE(f) ==
  IF ~Comparable(f.current_time, f.stop_date) THEN "raise"
  ELSE IF NotLater(f.current_time, f.stop_date) /\ f.position_count <= max_positions
       THEN "true"
       ELSE "false"

\* Mutant: the loop condition without the limit on position_count.
PlanetLoopCond_NoCap(f) ==
  IF ~Comparable(f.current_time, f.stop_date) THEN "raise"
  ELSE IF NotLater(f.current_time, f.stop_date)
       THEN "true"
       ELSE "false"

\* Line 491: "true", "false", or "raise" when the comparison is a TypeError.
PlanetLoopCond(f) ==
  IF ~Comparable(f.current_time, f.stop_date) THEN "raise"
  ELSE IF NotLater(f.current_time, f.stop_date) /\ f.position_count < max_positions
       THEN "true"
       ELSE "false"

\* current_time + timedelta(hours=step_hours): [err, t]; err is the
\* exception of the timedelta (ValueError, OverflowError) or of the sum
\* (OverflowError), "none" when there is none.
NextTime(f) ==
  LET d == StepTimedelta(f.step_hours)
  IN  IF d.err # "none" THEN [err |-> d.err, t |-> f.current_time]
      ELSE DatetimeAdd[f.current_time, d]

\* current_time += timedelta(hours=step_hours), whose value is t;
\* position_count += 1
Advance(f, positions, t) ==
  [f EXCEPT !.positions = positions,
            !.current_time = t,
            !.position_count = f.position_count + 1]

\* Lines 491-537: one turn of the while loop. An exception of line 536
\* leaves the loop after the sample of this turn was appended; the except
\* branch drops the list.
PlanetIter ==
  /\ Running("gop", "loop")
  /\ PlanetLoopCond(Top) # "false"
  /\ \E next \in {NextTime(Top)} :
       IF PlanetLoopCond(Top) = "raise"
       THEN Raise("TypeError")
       ELSE IF PlanetIterationError(Top.id, Top.current_time) # "none"
            THEN Raise(PlanetIterationError(Top.id, Top.current_time))
            ELSE IF next.err # "none"
            THEN RaiseIn([Top EXCEPT !.positions =
                            Append(Top.positions, PlanetSample(Top.id, Top.current_time))],
                         next.err)
            ELSE /\ stack' = Below \o
                       <<Advance(Top, Append(Top.positions,
                                             PlanetSample(Top.id, Top.current_time)),
                                 next.t)>>
                 /\ UNCHANGED <<status, result, log>>
  /\ UNCHANGED <<genArgs, call, fetchVars, ephemVars, kepler>>

\* Lines 539-540.
PlanetDone ==
  /\ Running("gop", "loop")
  /\ PlanetLoopCond(Top) = "false"
  /\ Return(Top.positions, Append(log, Msg("Generated positions", Top.id)))
  /\ UNCHANGED <<genArgs, call, fetchVars, ephemVars, kepler>>

\* Lines 542-549.
PlanetExcept ==
  /\ Running("gop", "except")
  /\ Return(<<FallbackSample(Top.id, start)>>,
            Append(log, Msg("Error generating positions", Top.id)))
  /\ UNCHANGED <<genArgs, call, fetchVars, ephemVars, kepler>>

-----------------------------------------------------------------------------
(* generate_moon_positions.                                                *)

MoonParse ==
  /\ Running("gmp", "try")
  /\ ParseWindow
  /\ UNCHANGED <<genArgs, call, fetchVars, ephemVars, kepler>>

\* Mutant: the moon loop stops before the instant equal to stop.
MoonLoopCond_Strict(f) ==
  IF ~Comparable(f.current_time, f.stop_date) THEN "raise"
  ELSE IF Earlier(f.current_time, f.stop_date) /\ f.position_count < max_positions
       THEN "true"
       ELSE "false"

\* Line 570.
MoonLoopCond(f) ==
  IF ~Comparable(f.current_time, f.stop_date) THEN "raise"
  ELSE IF NotLater(f.current_time, f.stop_date) /\ f.position_count < max_positions
       THEN "true"
       ELSE "false"

\* Lines 599-616: the positions after this turn.
MoonAppend(f) ==
  LET k == ParentLookup(f.parent_positions, f.current_time)
  IN  IF k = 0 THEN f.positions
      ELSE Append(f.positions,
                  MoonSample(f.id, f.parent_positions[k], f.current_time))

\* Lines 570-619: one turn of the while loop. An exception of line 618
\* leaves the loop after the sample of this turn was appended (when the
\* parent has one at this instant).
MoonIter ==
  /\ Running("gmp", "loop")
  /\ MoonLoopCond(Top) # "false"
  /\ \E next \in {NextTime(Top)} :
       IF MoonLoopCond(Top) = "raise"
       THEN Raise("TypeError")
       ELSE IF MoonIterationError(Top.id, Top.current_time) # "none"
            THEN Raise(MoonIterationError(Top.id, Top.current_time))
            ELSE IF next.err # "none"
            THEN RaiseIn([Top EXCEPT !.positions = MoonAppend(Top)], next.err)
            ELSE /\ stack' = Below \o <<Advance(Top, MoonAppend(Top), next.t)>>
                 /\ UNCHANGED <<status, result, log>>
  /\ UNCHANGED <<genArgs, call, fetchVars, ephemVars, kepler>>

\* Lines 621-622.
MoonDone ==
  /\ Running("gmp", "loop")
  /\ MoonLoopCond(Top) = "false"
  /\ Return(Top.positions, Append(log, Msg("Generated moon positions", Top.id)))
  /\ UNCHANGED <<genArgs, call, fetchVars, ephemVars, kepler>>

\* Lines 624-626.
MoonExcept ==
  /\ Running("gmp", "except")
  /\ Return(<<>>, Append(log, Msg("Error generating moon positions", Top.id)))
  /\ UNCHANGED <<genArgs, call, fetchVars, ephemVars, kepler>>

Generate ==
  \/ Dispatch
  \/ MoonCall
  \/ PlanetParse
  \/ PlanetIter
  \/ PlanetDone
  \/ PlanetExcept
  \/ MoonParse
  \/ MoonIter
  \/ MoonDone
  \/ MoonExcept

-----------------------------------------------------------------------------
(* The inputs that are explored.                                           *)

UnknownIds == {"603", "000"}

BodyIds == RegistryIds \cup UnknownIds

\* The bodies that are run with the cap steps.
CapIds == {"10", "399", "301"}

NoResponse ==
  [kind |-> "none", status |-> 0, json |-> "none",
   data |-> [present |-> FALSE, iterable |-> FALSE, rows |-> <<>>],
   result |-> [present |-> FALSE, text |-> FALSE, container |-> FALSE, soe |-> FALSE,
               lines |-> <<>>]]

NoRequest == [command |-> "", start |-> BadText, stop |-> BadText, step |-> <<>>,
              center |-> ""]

NoResult == [id |-> "", center |-> "", states |-> <<>>]

\* An angle of the Kepler solution: g sixteenths of a turn (pi / 8) and d
\* times 1e-9 rad beside them.
Angle(g, d) == [g |-> g, d |-> d]

NoKepler == [pc |-> "none", a |-> "0.0", e |-> 0, M |-> Angle(0, 0), E |-> Angle(0, 0),
             n |-> 0, nu |-> Angle(0, 0), r |-> <<"0.0", 0>>]

\* No ephem request has been received and the cache is empty.
EphemIdle ==
  /\ cache = <<>>
  /\ now = 0
  /\ ereq = <<>>
  /\ epc = <<>>
  /\ ids = <<>>
  /\ expanded_ids = <<>>
  /\ out = <<>>
  /\ eresponse = <<>>
  /\ suspended = <<>>
  /\ active = 0

KeplerIdle == kepler = NoKepler

Init ==
  /\ body_id \in BodyIds
  /\ \/ /\ start \in StartTexts
        /\ stop \in StopTexts
        /\ step \in StepTexts
        /\ step \in CapSteps => body_id \in CapIds /\ stop # Text("naive", 24)
     \/ /\ \E run \in EdgeRuns : start = run[1] /\ stop = run[2] /\ step = run[3]
        /\ body_id \in CapIds
  /\ stack = <<NewFrame("gop", body_id, "entry", <<>>)>>
  /\ status = "running"
  /\ result = <<>>
  /\ log = <<>>
  /\ call = "generate_orbital_positions"
  /\ req = NoRequest
  /\ response = NoResponse
  /\ fpc = "none"
  /\ fresult = NoResult
  /\ EphemIdle
  /\ KeplerIdle

Next == Generate

Spec == Init /\ [][Next]_vars

\* The call is synchronous code on one thread: the interpreter runs the next
\* statement whenever there is one, so a step that stays possible is taken.
\* The runs to completion with a step of zero or less on a window that lets
\* the loop start, and on the long window: the Moon with "0h" (its parent,
\* the Earth, runs with the same step), the Earth with "-6h", the Sun with
\* "0h", and the Earth with "6h" on the long window.
CapRuns ==
  {<<"301", <<"0", "h">>, Text("date", 2)>>,
   <<"399", <<"-", "6", "h">>, Text("date", 2)>>,
   <<"10", <<"0", "h">>, Text("date", 2)>>,
   <<"399", <<"6", "h">>, Text("date", LongDay)>>}

\* The steps of the runs to completion: "6h", "" (the default step),
\* "daily" (no number), "nanh" (no timedelta), "0h" and "-6h".
TermSteps == {<<"6", "h">>, <<>>, <<"d", "a", "i", "l", "y">>,
              <<"n", "a", "n", "h">>, <<"0", "h">>, <<"-", "6", "h">>}

\* The inputs of the runs to completion: those of Init with a step of
\* TermSteps, the long window and the steps of zero or less on a window that
\* lets the loop start being kept for CapRuns.
InitTerm ==
  /\ Init
  /\ step \in TermSteps
  /\ (\/ stop = Text("date", LongDay)
      \/ /\ step \in {<<"0", "h">>, <<"-", "6", "h">>}
         /\ stop \in {Text("date", 2), Text("aware", 48)})
     => <<body_id, step, stop>> \in CapRuns

FairSpec == InitTerm /\ [][Next]_vars /\ WF_vars(Next)

-----------------------------------------------------------------------------
(* generate_moon_positions called on its own: a driver obtains a series    *)
(* for a planet with generate_orbital_positions, then hands it to          *)
(* generate_moon_positions with one of the planet's moons and a window of  *)
(* its own.                                                                *)

Parents == {id \in RegistryIds : \E m \in RegistryIds : CELESTIAL_OBJECTS[m].parent = id}

\* "garbage", "2000-01-02", "2000-01-02T00:00:00"
ParentStartTexts == {BadText, Text("date", 1), Text("naive", 24)}

\* "garbage", "2000-01-03"
ParentStopTexts == {BadText, Text("date", 2)}

\* "6h", "1d"
ParentStepTexts == {<<"6", "h">>, <<"1", "d">>}

\* "2000-01-02", "2000-01-02T06:00:00", "2000-01-02T00:00:00+00:00"
MoonStartTexts == {Text("date", 1), Text("naive", 30), Text("aware", 24)}

\* "2000-01-03", "2000-01-02T12:00:00"
MoonStopTexts == {Text("date", 2), Text("naive", 36)}

\* "6h", "12h"
MoonStepTexts == {<<"6", "h">>, <<"1", "2", "h">>}

InitMoon ==
  /\ body_id \in Parents
  /\ start \in ParentStartTexts
  /\ stop \in ParentStopTexts
  /\ step \in ParentStepTexts
  /\ stack = <<NewFrame("gop", body_id, "entry", <<>>)>>
  /\ status = "running"
  /\ result = <<>>
  /\ log = <<>>
  /\ call = "parent_series"
  /\ req = NoRequest
  /\ response = NoResponse
  /\ fpc = "none"
  /\ fresult = NoResult
  /\ EphemIdle
  /\ KeplerIdle

\* generate_moon_positions(CELESTIAL_OBJECTS[moon], <the series>, start, stop, step)
CallMoon ==
  /\ call = "parent_series"
  /\ status = "returned"
  /\ \E moon \in RegistryIds, s \in MoonStartTexts, e \in MoonStopTexts,
        st \in MoonStepTexts :
       /\ CELESTIAL_OBJECTS[moon].parent = body_id
       /\ body_id' = moon
       /\ start' = s
       /\ stop' = e
       /\ step' = st
       /\ stack' = <<NewFrame("gmp", moon, "try", result)>>
  /\ status' = "running"
  /\ result' = <<>>
  /\ call' = "generate_moon_positions"
  /\ UNCHANGED <<log, fetchVars, ephemVars, kepler>>

NextMoon ==
  \/ Dispatch
  \/ PlanetParse
  \/ PlanetIter
  \/ PlanetDone
  \/ PlanetExcept
  \/ CallMoon
  \/ MoonParse
  \/ MoonIter
  \/ MoonDone
  \/ MoonExcept

SpecMoon == InitMoon /\ [][NextMoon]_vars

-----------------------------------------------------------------------------
(* fetch_horizons_vectors: the live attempt, then the fallback.            *)

\* Bounds on the rows of a JSON "data" list and on the lines of a $$SOE block.
MaxRows == 2

MaxLines == 2

SeqsUpTo(S, n) == UNION {[1..k -> S] : k \in 0..n}

\* A row is "ok" (eight fields, the last six numeric) or "bad" (too short, or
\* a field float() rejects).
RowKinds == {"ok", "bad"}

\* A line of the block is "ok", "skip" (blank or starting with "!"), "short"
\* (fewer than 7 comma-separated parts) or "bad" (a part float() rejects).
LineKinds == {"ok", "skip", "short", "bad"}

\* "data": absent, null, or a list of rows.
DataValues ==
  {[present |-> FALSE, iterable |-> FALSE, rows |-> <<>>],
   [present |-> TRUE, iterable |-> FALSE, rows |-> <<>>]} \cup
  {[present |-> TRUE, iterable |-> TRUE, rows |-> r] : r \in SeqsUpTo(RowKinds, MaxRows)}

\* "result": absent; a value that is no text and supports no `in' (null, a
\* number, true or false); a JSON list or object (container), without
\* "$$SOE" among its elements or keys or with it (soe); a text without
\* $$SOE; or a text with a block.
ResultValues ==
  {[present |-> FALSE, text |-> FALSE, container |-> FALSE, soe |-> FALSE, lines |-> <<>>],
   [present |-> TRUE, text |-> FALSE, container |-> FALSE, soe |-> FALSE, lines |-> <<>>],
   [present |-> TRUE, text |-> FALSE, container |-> TRUE, soe |-> FALSE, lines |-> <<>>],
   [present |-> TRUE, text |-> FALSE, container |-> TRUE, soe |-> TRUE, lines |-> <<>>],
   [present |-> TRUE, text |-> TRUE, container |-> FALSE, soe |-> FALSE, lines |-> <<>>]} \cup
  {[present |-> TRUE, text |-> TRUE, container |-> FALSE, soe |-> TRUE, lines |-> l] :
     l \in SeqsUpTo(LineKinds, MaxLines)}

\* Lines 670-672 on a "result" that is no text: `"$$SOE" in text' raises
\* TypeError for a value that supports no `in'; on a list or an object it is
\* a test of its elements or keys, and where that finds "$$SOE", text.split
\* of line 672 raises AttributeError.
ResultRaises(r) == r.present /\ ~r.text /\ (~r.container \/ r.soe)

\* What the live attempt can meet: the request fails (network error, timeout),
\* or a response arrives with a status and a body that is no JSON, a JSON
\* list, or a JSON object.
Responses ==
     {[NoResponse EXCEPT !.kind = "exception"]}
  \cup {[NoResponse EXCEPT !.kind = "http", !.status = st, !.json = j] :
          st \in {200, 503}, j \in {"invalid", "list"}}
  \cup {[kind |-> "http", status |-> st, json |-> "dict", data |-> d, result |-> r] :
          st \in {200, 503}, d \in DataValues, r \in ResultValues}

LiveSample(src, k) ==
  [t |-> Text(src, k), r |-> <<<<"live", src, k>>>>, v |-> <<<<"livev", src, k>>>>]

\* Lines 656-665 and 673-687: the states of the rows (lines) that parse, in
\* order; a row that fails is skipped.
RECURSIVE ParsedStates(_, _, _)
ParsedStates(kinds, src, k) ==
  IF k > Len(kinds) THEN <<>>
  ELSE (IF kinds[k] = "ok" THEN <<LiveSample(src, k)>> ELSE <<>>)
       \o ParsedStates(kinds, src, k + 1)

\* Mutant: the body is parsed whatever the status code.
LiveStates_StatusUnchecked(resp) ==
  IF resp.kind = "exception" THEN [raised |-> TRUE, states |-> <<>>]
  ELSE IF resp.json = "invalid" THEN [raised |-> TRUE, states |-> <<>>]
  ELSE IF resp.json # "dict" THEN [raised |-> FALSE, states |-> <<>>]
  ELSE IF resp.data.present /\ ~resp.data.iterable
       THEN [raised |-> TRUE, states |-> <<>>]
  ELSE IF resp.data.present /\ ParsedStates(resp.data.rows, "data", 1) # <<>>
       THEN [raised |-> FALSE, states |-> ParsedStates(resp.data.rows, "data", 1)]
  ELSE IF ResultRaises(resp.result)
       THEN [raised |-> TRUE, states |-> <<>>]
  ELSE IF resp.result.text /\ resp.result.soe
       THEN [raised |-> FALSE, states |-> ParsedStates(resp.result.lines, "result", 1)]
  ELSE [raised |-> FALSE, states |-> <<>>]

\* Lines 646-692, the try block: [raised, states]. raised: an exception reached
\* the except clause of line 691 (the request failed, the body is no JSON,
\* "data" is not iterable, "result" is a value that ResultRaises names).
\* states: the states parsed from "data", or else from the $$SOE block of a
\* text; empty when nothing parsed.
LiveStates(resp) ==
  IF resp.kind = "exception" THEN [raised |-> TRUE, states |-> <<>>]
  ELSE IF resp.status # 200 THEN [raised |-> FALSE, states |-> <<>>]
  ELSE IF resp.json = "invalid" THEN [raised |-> TRUE, states |-> <<>>]
  ELSE IF resp.json # "dict" THEN [raised |-> FALSE, states |-> <<>>]
  ELSE IF resp.data.present /\ ~resp.data.iterable
       THEN [raised |-> TRUE, states |-> <<>>]
  ELSE IF resp.data.present /\ ParsedStates(resp.data.rows, "data", 1) # <<>>
       THEN [raised |-> FALSE, states |-> ParsedStates(resp.data.rows, "data", 1)]
  ELSE IF ResultRaises(resp.result)
       THEN [raised |-> TRUE, states |-> <<>>]
  ELSE IF resp.result.text /\ resp.result.soe
       THEN [raised |-> FALSE, states |-> ParsedStates(resp.result.lines, "result", 1)]
  ELSE [raised |-> FALSE, states |-> <<>>]

\* "399", "301", and "603" (a moon of Saturn's list that has no registry entry)
FetchCommands == {"399", "301", "603"}

Requests ==
  {[command |-> c, start |-> s, stop |-> Text("date", 2), step |-> <<"6", " ", "h">>,
    center |-> ce] :
     c \in FetchCommands, s \in {Text("date", 1), BadText}, ce \in {"500@0", "@10"}}

InitFetch ==
  /\ req \in Requests
  /\ response \in Responses
  /\ fpc = "live"
  /\ fresult = NoResult
  /\ body_id = ""
  /\ start = BadText
  /\ stop = BadText
  /\ step = <<>>
  /\ stack = <<>>
  /\ status = "idle"
  /\ result = <<>>
  /\ log = <<>>
  /\ call = "fetch_horizons_vectors"
  /\ EphemIdle
  /\ KeplerIdle

\* Lines 646-651 and 691-692: the awaited GET of line 649 has completed. An
\* error of the request reaches the except clause at once: no connection is
\* open, and leaving the async with block does not suspend. With an answer
\* the body is read (lines 651-689) and the coroutine suspends at the exit
\* of the block while the client is closed: inside the ephem handler the
\* other requests run meanwhile.
LiveAttempt ==
  /\ fpc = "live"
  /\ IF response.kind = "exception"
     THEN /\ fpc' = "fallback"
          /\ log' = Append(log, Msg("NASA API failed", req.command))
          /\ UNCHANGED <<req, response, ephemVars>>
     ELSE IF call # "ephem"
     THEN /\ fpc' = "exit"
          /\ UNCHANGED <<log, req, response, ephemVars>>
     ELSE /\ suspended' = [suspended EXCEPT ![active] = response]
          /\ epc' = [epc EXCEPT ![active] = "exit"]
          /\ active' = 0
          /\ fpc' = "none"
          /\ req' = NoRequest
          /\ response' = NoResponse
          /\ UNCHANGED <<log, cache, now, ereq, ids, expanded_ids, out, eresponse>>
  /\ UNCHANGED <<genArgs, stack, status, result, call, fresult, kepler>>

\* Lines 647-692 after the exit of the async with block: the live attempt
\* returns its states when it parsed any; otherwise control reaches line
\* 694, through the except clause when the body raised.
LiveExit ==
  /\ fpc = "exit"
  /\ IF LiveStates(response).states # <<>>
     THEN /\ fresult' = [id |-> req.command, center |-> req.center,
                         states |-> LiveStates(response).states]
          /\ fpc' = "done"
          /\ UNCHANGED log
     ELSE /\ fpc' = "fallback"
          /\ log' = IF LiveStates(response).raised
                    THEN Append(log, Msg("NASA API failed", req.command))
                    ELSE log
          /\ UNCHANGED fresult
  /\ UNCHANGED <<genArgs, stack, status, result, call, req, response, ephemVars, kepler>>

\* The arguments of the call of line 696.
FallbackArgs_Swapped(r) == <<r.command, r.stop, r.start, r.step>>

FallbackArgs(r) == <<r.command, r.start, r.stop, r.step>>

\* Lines 695-696: generate_orbital_positions(command, start, stop, step) starts.
FallbackCall ==
  /\ fpc = "fallback"
  /\ body_id' = FallbackArgs(req)[1]
  /\ start' = FallbackArgs(req)[2]
  /\ stop' = FallbackArgs(req)[3]
  /\ step' = FallbackArgs(req)[4]
  /\ stack' = <<NewFrame("gop", FallbackArgs(req)[1], "entry", <<>>)>>
  /\ status' = "running"
  /\ fpc' = "generating"
  /\ log' = Append(log, Msg("Using fallback orbital data", req.command))
  /\ UNCHANGED <<result, call, req, response, fresult, ephemVars, kepler>>

\* Lines 696-697: the generator's list becomes the states of the result; an
\* exception out of the generator would leave fetch_horizons_vectors too.
FetchReturn ==
  /\ fpc = "generating"
  /\ status \in {"returned", "raised"}
  /\ IF status = "returned"
     THEN /\ fresult' = [id |-> req.command, center |-> req.center, states |-> result]
          /\ fpc' = "done"
     ELSE /\ fpc' = "raised"
          /\ UNCHANGED fresult
  /\ UNCHANGED <<genArgs, stack, status, result, log, call, req, response, ephemVars, kepler>>

NextFetch ==
  \/ LiveAttempt
  \/ LiveExit
  \/ FallbackCall
  \/ Generate
  \/ FetchReturn

SpecFetch == InitFetch /\ [][NextFetch]_vars

-----------------------------------------------------------------------------
(* The Kepler solution inlined in both loops (lines 496-508, 575-587), as  *)
(* a computation of its own on a mean anomaly.                             *)
(*  - An angle is a whole number g of sixteenths of a turn (pi / 8) and an *)
(*    offset d in units of 1e-9 rad, of either sign and below 2^31: its    *)
(*    value is g * pi / 8 + d * 1e-9, and one value has many writings.     *)
(*    e * sin(E) moves the eccentric anomaly off the grid (d = 0).         *)
(*  - sin, cos and sqrt are ten-thousandths, rounded to the nearest: sin   *)
(*    and cos are read from a table on the grid, and continued by the      *)
(*    addition formulas beside it, from the grid point nearest to the      *)
(*    angle. Which side of a grid point an angle is on is decided exactly, *)
(*    from pi to fifty digits. sin and cos are within 2e-4 of the code's;  *)
(*    for the registry's eccentricities (up to 0.25) the eccentric anomaly *)
(*    and the radius factor are within 1e-3 of the code's and the true     *)
(*    anomaly within 2e-3; every result for e = 0 and an even g is exact.  *)
(*  - e is in millionths, as in the registry.                              *)

\* math.pi, in grid units.
Pi == 8

\* pi / 16 in units of 1e-9 rad: half a grid unit.
HalfUnit == 196349541

\* 10000 * math.sin(x) for x on the grid
SinGrid(x) ==
  <<0, 3827, 7071, 9239, 10000, 9239, 7071, 3827,
    0, -3827, -7071, -9239, -10000, -9239, -7071, -3827>>[(x % (2 * Pi)) + 1]

\* 10000 * math.cos(x) for x on the grid
CosGrid(x) == SinGrid(x + Pi \div 2)

\* 10000 times the sine and the cosine of an offset d of at most half a grid
\* unit: the series up to the third and the fourth power of u, the offset in
\* units of 1e-5 rad, summed in units of 1e-5 and rounded.
SinOffset(d) ==
  LET u == (d + 5000) \div 10000
  IN  (u - (((u * u) \div 10000) * u) \div 6000000 + 5) \div 10

CosOffset(d) ==
  LET u == (d + 5000) \div 10000
      v == (u * u) \div 10000
  IN  (100000 - (u * u + 100000) \div 200000 + (v * v) \div 240000000 + 5) \div 10

\* An angle written from the grid point nearest to it: an offset of at most
\* half a grid unit. (A grid unit is 2 * HalfUnit less 3e-10 rad, far below
\* a ten-thousandth.)
Nearest(x) ==
  LET q == x.d \div (2 * HalfUnit)
      r == x.d % (2 * HalfUnit)
  IN  IF r > HalfUnit THEN Angle(x.g + q + 1, r - 2 * HalfUnit) ELSE Angle(x.g + q, r)

\* 10000 * math.sin(x) and 10000 * math.cos(x) for an angle
Sin(x) ==
  LET n == Nearest(x)
  IN  (SinGrid(n.g) * CosOffset(n.d) + CosGrid(n.g) * SinOffset(n.d) + 5000) \div 10000

Cos(x) ==
  LET n == Nearest(x)
  IN  (CosGrid(n.g) * CosOffset(n.d) - SinGrid(n.g) * SinOffset(n.d) + 5000) \div 10000

\* 10000 * math.sqrt(x / 10^6), to the nearest, for x up to 2 * 10^6: half of
\* the whole root of 400 * x, rounded up.
Sqrt(x) ==
  ((CHOOSE r \in 0..30000 : r * r <= 400 * x /\ 400 * x < (r + 1) * (r + 1)) + 1) \div 2

\* The direction (x, y) seen from the grid direction g: along it and across.
Along(y, x, g) == x * CosGrid(g) + y * SinGrid(g)

Across(y, x, g) == y * CosGrid(g) - x * SinGrid(g)

Abs(n) == IF n < 0 THEN 0 - n ELSE n

\* math.atan2(y, x) for y and x in ten-thousandths, of size up to 15000: the
\* angle in (-pi, pi] of the direction (x, y), as the nearest grid direction
\* and the arc tangent of what is left (t, the quotient of across by along
\* in units of 1e-4, to the nearest, both divided by s to keep the product
\* below 2^31; and the series up to its third power). atan2(0, x) is pi for a
\* negative x.
Atan2(y, x) ==
  IF x = 0 /\ y = 0 THEN Angle(0, 0)
  ELSE LET g == CHOOSE c \in (1 - Pi)..Pi :
                  /\ Along(y, x, c) > 0
                  /\ \A o \in (1 - Pi)..Pi :
                       Along(y, x, o) > 0 => Abs(Across(y, x, c)) <= Abs(Across(y, x, o))
           s == 1 + Along(y, x, g) \div 400000
           a == Across(y, x, g) \div s
           b == Along(y, x, g) \div s
           t == (2 * a * 10000 + b) \div (2 * b)
           d == (t - (((t * t) \div 1000) * t) \div 300000) * 100000
       IN  IF g = Pi /\ d > 0 THEN Angle(0 - Pi, d) ELSE Angle(g, d)

\* The bound of the loop of lines 499 and 578.
KeplerIterations == 5

\* One turn of that loop: mean_anomaly + e * sin(eccentric_anomaly). e in
\* millionths times a sine in thousandths is in units of 1e-9 rad.
KeplerStep(e, M, E) == Angle(M.g, M.d + e * ((Sin(E) + 5) \div 10))

\* eccentric_anomaly / 2
Half(E) == Angle(E.g \div 2, (E.g % 2) * HalfUnit + E.d \div 2)

\* math.pi, the double nearest to pi, and pi to fifty digits.
PiDouble ==
  Decimal[FALSE, <<3, 1, 4, 1, 5, 9, 2, 6, 5, 3, 5, 8, 9, 7, 9, 3, 1, 1, 5, 9, 9, 7, 9, 6, 3,
                   4, 6, 8, 5, 4, 4, 1, 8, 5, 1, 6, 1, 5, 9, 0, 5, 7, 6, 1, 7, 1, 8, 7, 5>>, -48]

PiExact ==
  Decimal[FALSE, <<3, 1, 4, 1, 5, 9, 2, 6, 5, 3, 5, 8, 9, 7, 9, 3, 2, 3, 8, 4, 6, 2, 6, 4, 3,
                   3, 8, 3, 2, 7, 9, 5, 0, 2, 8, 8, 4, 1, 9, 7, 1, 6, 9, 3, 9, 9, 3, 7, 5, 1>>, -49]

\* rest * pi / 8 + d * 1e-9 > 0, for whole numbers rest and d: where the two
\* parts have opposite signs, eight times their sizes are compared digit by
\* digit, |rest| * pi against 8 * |d| * 1e-9 (the two are never equal).
Ahead(rest, d) ==
  LET grid == Times(PiExact, Abs(rest), 0)
      nano == Decimal[FALSE, MulCarry[DigitsOfNat[Abs(d)], 8, 0], -9]
  IN  IF rest >= 0 /\ d >= 0 THEN rest > 0 \/ d > 0
      ELSE IF rest <= 0 /\ d <= 0 THEN FALSE
      ELSE Less[IF rest > 0 THEN nano ELSE grid, IF rest > 0 THEN grid ELSE nano]

\* math.sin(E / 2) < 0 for an eccentric anomaly whose half has a sine below
\* every ten-thousandth and a negative cosine: E / 2 is at an odd multiple
\* k * pi or beside it, and E is rest grid units and E.d nano-radians ahead of
\* 2 * k * pi. Beside it the side decides, whatever the writing of E. At it
\* (a mean anomaly on the grid and an eccentricity that does not move the
\* double), E / 2 is the double nearest to |k| * math.pi, with the sign of
\* k, and its sine has the sign of what k * pi is ahead of it.
BelowCut(E) ==
  LET k    == (E.g + Pi) \div (2 * Pi)
      rest == E.g - 2 * Pi * k
      x    == NearestFloat[Times(PiDouble, Abs(k), 0)]
      kpi  == Times(PiExact, Abs(k), 0)
  IN  IF rest # 0 \/ E.d # 0 THEN Ahead(rest, E.d)
      ELSE k # 0 /\ ((k > 0) = Less[kpi, x])

\* Mutant: the factor 2 in front of atan2 is lost.
TrueAnomaly_NoDoubling(e, E) ==
  Atan2((Sqrt(1000000 + e) * Sin(Half(E)) + 5000) \div 10000,
        (Sqrt(1000000 - e) * Cos(Half(E)) + 5000) \div 10000)

\* Lines 503-506: 2 * atan2(sqrt(1+e) * sin(E/2), sqrt(1-e) * cos(E/2)).
\* Where the first argument is a negative number below every ten-thousandth
\* and the second is negative, atan2 is -pi.
TrueAnomaly(e, E) ==
  LET y  == (Sqrt(1000000 + e) * Sin(Half(E)) + 5000) \div 10000
      x  == (Sqrt(1000000 - e) * Cos(Half(E)) + 5000) \div 10000
      at == IF y = 0 /\ x < 0 /\ BelowCut(E) THEN Angle(0 - Pi, 0) ELSE Atan2(y, x)
  IN  Angle(2 * at.g, 2 * at.d)

\* Line 508: a * (1 - e * cos(E)), kept as the pair of a's literal and the
\* second factor in units of 1e-9 (e in millionths times a cosine in
\* thousandths).
Radius(a, e, E) == <<a, 1000000000 - e * ((Cos(E) + 5) \div 10)>>

\* The largest mean anomaly that is drawn, in eighths of a turn (pi / 4).
MaxAnomaly == 20

\* Mean anomalies beside a whole turn, on either side of 2 pi and of -2 pi:
\* a nano-radian and 6e-4 rad off it, and 3e-10 rad off it, as the angles
\* that are written from the grid points next to the turn and two from it.
BesideTurn ==
  {Angle(g, d) : g \in {0 - 2 * Pi, 2 * Pi}, d \in {-600000, -1, 1, 600000}}
    \cup {Angle(g - 1, 2 * HalfUnit) : g \in {0 - 2 * Pi, 2 * Pi}}
    \cup {Angle(g + 1, 0 - 2 * HalfUnit) : g \in {0 - 2 * Pi, 2 * Pi}}
    \cup {Angle(g - 2, 4 * HalfUnit) : g \in {0 - 2 * Pi, 2 * Pi}}
    \cup {Angle(g + 2, 0 - 4 * HalfUnit) : g \in {0 - 2 * Pi, 2 * Pi}}

\* Mean anomalies from -5 pi to 5 pi: (days / period) * 2 * pi is negative
\* before the epoch and for a retrograde body, and passes a turn after one
\* period. Almost none is on the grid: the anomalies beside a whole turn
\* and a few between the grid points are drawn with those on it.
MeanAnomalies ==
  {Angle(2 * m, 0) : m \in (0 - MaxAnomaly)..MaxAnomaly}
    \cup BesideTurn
    \cup {Angle(g, d) : g \in {-19, -3, 0, 5, 30}, d \in {-150000000, 70000000}}

\* The eccentricity of a circular orbit, and those of Earth and of Mercury.
Eccentricities == {0, 16700, 205600}

\* The semi-major axes of Earth and of the Moon.
SemiMajorAxes == {"149597870.7", "384400.0"}

InitKepler ==
  /\ kepler \in {[NoKepler EXCEPT !.pc = "start", !.a = a, !.e = e, !.M = M] :
                    a \in SemiMajorAxes, e \in Eccentricities, M \in MeanAnomalies}
  /\ EphemIdle
  /\ body_id = ""
  /\ start = BadText
  /\ stop = BadText
  /\ step = <<>>
  /\ stack = <<>>
  /\ status = "idle"
  /\ result = <<>>
  /\ log = <<>>
  /\ call = "kepler"
  /\ req = NoRequest
  /\ response = NoResponse
  /\ fpc = "none"
  /\ fresult = NoResult

\* Line 498: eccentric_anomaly = mean_anomaly
KeplerStart ==
  /\ kepler.pc = "start"
  /\ kepler' = [kepler EXCEPT !.pc = "iterate", !.E = kepler.M, !.n = 0]
  /\ UNCHANGED <<genArgs, stack, status, result, log, call, fetchVars, ephemVars>>

\* Lines 499-500: one turn of the for loop.
KeplerIterate ==
  /\ kepler.pc = "iterate"
  /\ kepler.n < KeplerIterations
  /\ kepler' = [kepler EXCEPT !.E = KeplerStep(kepler.e, kepler.M, kepler.E),
                              !.n = kepler.n + 1]
  /\ UNCHANGED <<genArgs, stack, status, result, log, call, fetchVars, ephemVars>>

\* Lines 503-506.
KeplerAnomaly ==
  /\ kepler.pc = "iterate"
  /\ kepler.n = KeplerIterations
  /\ kepler' = [kepler EXCEPT !.pc = "radius", !.nu = TrueAnomaly(kepler.e, kepler.E)]
  /\ UNCHANGED <<genArgs, stack, status, result, log, call, fetchVars, ephemVars>>

\* Line 508.
KeplerRadius ==
  /\ kepler.pc = "radius"
  /\ kepler' = [kepler EXCEPT !.pc = "done",
                              !.r = Radius(kepler.a, kepler.e, kepler.E)]
  /\ UNCHANGED <<genArgs, stack, status, result, log, call, fetchVars, ephemVars>>

NextKepler ==
  \/ KeplerStart
  \/ KeplerIterate
  \/ KeplerAnomaly
  \/ KeplerRadius

SpecKepler == InitKepler /\ [][NextKepler]_vars

-----------------------------------------------------------------------------
(* The ephem handler and its cache.                                        *)
(*  - horizons_ids is a tuple of parts that its text joins with commas,    *)
(*    each part a tuple of tokens: strings of any length (a comma may be   *)
(*    among their characters). One text has many such writings; the        *)
(*    handler sees the text alone.                                         *)
(*  - The handler is a coroutine: it runs without interruption between two *)
(*    awaits, and it awaits only inside the live attempt of                *)
(*    fetch_horizons_vectors: for the answer to its GET, and, once it has  *)
(*    an answer, at the exit of the async with block, where the client is  *)
(*    closed. active is the request whose code is running, 0 when every    *)
(*    request is suspended or finished; suspended holds the answer of a    *)
(*    request that waits at that exit.                                     *)
(*  - The clock counts seconds.                                            *)

CACHE_TTL == 6 * 3600

\* The text of a tuple of tokens.
TextOf[tokens \in Seq(STRING)] ==
  IF tokens = <<>> THEN "" ELSE tokens[1] \o TextOf[Tail(tokens)]

\* The text of horizons_ids: its parts, joined with commas.
IdsText[parts \in Seq(Seq(STRING))] ==
  IF parts = <<>> THEN ""
  ELSE IF Len(parts) = 1 THEN TextOf[parts[1]]
  ELSE TextOf[parts[1]] \o "," \o IdsText[Tail(parts)]

\* Line 715 and _k(key): str() of the key tuple, which tells apart tuples of
\* distinct texts and takes every writing of one text for the same.
CacheKey(r) ==
  <<"ephem", IdsText[r.horizons_ids], r.start, r.stop, TextOf[r.step], r.center,
    r.include_moons>>

\* Mutant: an entry of exactly CACHE_TTL seconds is still served.
get_cached_Inclusive(c, key, t) ==
  IF key \in DOMAIN c /\ t - c[key].t <= CACHE_TTL
  THEN [hit |-> TRUE, data |-> c[key].data]
  ELSE [hit |-> FALSE, data |-> <<>>]

\* _get_cached at clock t: hit is FALSE for the value None.
get_cached(c, key, t) ==
  IF key \in DOMAIN c /\ t - c[key].t < CACHE_TTL
  THEN [hit |-> TRUE, data |-> c[key].data]
  ELSE [hit |-> FALSE, data |-> <<>>]

\* _set_cached at clock t.
set_cached(c, key, data, t) == (key :> [t |-> t, data |-> data]) @@ c

\* The characters of a text.
Chars[text \in STRING] == [k \in 1..Len(text) |-> SubSeq(text, k, k)]

\* s.split(","): the runs of characters between the commas of a text.
Pieces[cs \in Seq(STRING)] ==
  IF IndexOf(cs, {","}) = 0 THEN <<cs>>
  ELSE <<SubSeq(cs, 1, IndexOf(cs, {","}) - 1)>>
         \o Pieces[SubSeq(cs, IndexOf(cs, {","}) + 1, Len(cs))]

\* [s.strip() for s in horizons_ids.split(",") if s.strip()], on the text of
\* horizons_ids: what is between two commas loses the whitespace at its
\* ends, keeps what is between its other characters, and is dropped when
\* nothing is left of it.
SplitIds[parts \in Seq(Seq(STRING))] ==
  LET pieces == Pieces[Chars[IdsText[parts]]]
  IN  SelectSeq([k \in 1..Len(pieces) |-> TextOf[Strip(pieces[k])]],
                LAMBDA id : id # "")

\* Lines 721-722.
WithSun[l \in Seq(STRING)] ==
  IF \E k \in 1..Len(l) : l[k] = "10" THEN l ELSE <<"10">> \o l

\* Mutant: the moons of a body of any type are added.
MoonsToAdd_AnyType(obj_id) ==
  IF obj_id \in RegistryIds THEN CELESTIAL_OBJECTS[obj_id].moons ELSE <<>>

\* Lines 728-730: what one id adds to expanded_ids.
MoonsToAdd(obj_id) ==
  IF obj_id \in RegistryIds /\ CELESTIAL_OBJECTS[obj_id].type = "planet"
  THEN CELESTIAL_OBJECTS[obj_id].moons
  ELSE <<>>

\* The for loop of line 727, from the k-th id on.
RECURSIVE Extension(_, _)
Extension(l, k) ==
  IF k > Len(l) THEN <<>> ELSE MoonsToAdd(l[k]) \o Extension(l, k + 1)

\* Lines 725-730.
ExpandedIds(l, include_moons) ==
  IF include_moons THEN l \o Extension(l, 1) ELSE l

\* The requests that can be under way together.
Slots == {1, 2}

\* The clock stops at two lifetimes of an entry.
MaxClock == 43200

\* Time passes between two steps in halves of the lifetime of an entry.
TickSeconds == CACHE_TTL \div 2

\* The live source answers with one parsable row for the Moon, with status
\* 503 for the Sun and with a body that is no JSON for Earth; for every id
\* the request can fail.
LiveIds == {"301"}

LiveAnswer ==
  [kind |-> "http", status |-> 200, json |-> "dict",
   data |-> [present |-> TRUE, iterable |-> TRUE, rows |-> <<"ok">>],
   result |-> [present |-> FALSE, text |-> FALSE, container |-> FALSE, soe |-> FALSE,
               lines |-> <<>>]]

EphemResponses(hid) ==
  {[NoResponse EXCEPT !.kind = "exception"]}
  \cup (IF hid \in LiveIds THEN {LiveAnswer} ELSE {})
  \cup (IF hid = "10"
        THEN {[NoResponse EXCEPT !.kind = "http", !.status = 503, !.json = "invalid"]}
        ELSE {})
  \cup (IF hid = "399"
        THEN {[NoResponse EXCEPT !.kind = "http", !.status = 200, !.json = "invalid"]}
        ELSE {})

\* "2000-01-02" to "2000-01-02T06:00:00" at the default step "6 h".
EphemRequest(parts, startText, include_moons) ==
  [horizons_ids |-> parts, start |-> startText, stop |-> Text("naive", 30),
   step |-> <<"6", " ", "h">>, center |-> "500@0", include_moons |-> include_moons]

\* "399"; "301,399"; "399,10"; "000, 399 ," (an unknown id, blanks, an empty
\* part); "699"; "999"; "10 0,\t39 9" (blanks inside a part); and "301,399"
\* and "000, 399 ," once more, in other writings
IdTexts ==
  [earth   |-> << <<"399">> >>,
   twice   |-> << <<"301">>, <<"399">> >>,
   sunLast |-> << <<"399">>, <<"10">> >>,
   unknown |-> << <<"000">>, <<" ", "399", " ">>, <<>> >>,
   saturn  |-> << <<"699">> >>,
   pluto   |-> << <<"999">> >>,
   spaced  |-> << <<"10", " ", "0">>, <<"\t", "39", " ", "9">> >>,
   twiceInOne   |-> << <<"301,", "3", "99">> >>,
   unknownInOne |-> << <<"000, 399 ,">> >>]

\* The two requests of a run: the same request twice (also in two writings
\* of its texts), a request and its variant without moons, or a request with
\* an unknown id beside the request without it (also over a malformed
\* window).
Scenarios ==
  LET day == Text("date", 1)
  IN  {<<EphemRequest(IdTexts.earth, day, TRUE), EphemRequest(IdTexts.earth, day, TRUE)>>,
       <<EphemRequest(IdTexts.twice, day, TRUE), EphemRequest(IdTexts.twice, day, TRUE)>>,
       <<EphemRequest(IdTexts.twice, day, TRUE),
         [EphemRequest(IdTexts.twiceInOne, day, TRUE) EXCEPT !.step = <<"6 h">>]>>,
       <<EphemRequest(IdTexts.unknownInOne, day, FALSE), EphemRequest(IdTexts.unknown, day, FALSE)>>,
       <<EphemRequest(IdTexts.sunLast, day, TRUE), EphemRequest(IdTexts.sunLast, day, FALSE)>>,
       <<EphemRequest(IdTexts.unknown, day, TRUE), EphemRequest(IdTexts.earth, day, TRUE)>>,
       <<EphemRequest(IdTexts.unknown, BadText, TRUE), EphemRequest(IdTexts.earth, BadText, TRUE)>>,
       <<EphemRequest(IdTexts.saturn, day, TRUE), EphemRequest(IdTexts.pluto, day, TRUE)>>,
       <<EphemRequest(IdTexts.spaced, day, TRUE), EphemRequest(IdTexts.spaced, day, FALSE)>>}

InitEphem ==
  /\ ereq \in Scenarios
  /\ cache = <<>>
  /\ now = 0
  /\ epc = [s \in Slots |-> "idle"]
  /\ ids = [s \in Slots |-> <<>>]
  /\ expanded_ids = [s \in Slots |-> <<>>]
  /\ out = [s \in Slots |-> <<>>]
  /\ eresponse = [s \in Slots |-> <<>>]
  /\ suspended = [s \in Slots |-> NoResponse]
  /\ active = 0
  /\ KeplerIdle
  /\ body_id = ""
  /\ start = BadText
  /\ stop = BadText
  /\ step = <<>>
  /\ stack = <<>>
  /\ status = "idle"
  /\ result = <<>>
  /\ log = <<>>
  /\ call = "ephem"
  /\ req = NoRequest
  /\ response = NoResponse
  /\ fpc = "none"
  /\ fresult = NoResult

\* time.time() moves on while every request is suspended.
Tick ==
  /\ active = 0
  /\ now + TickSeconds <= MaxClock
  /\ now' = now + TickSeconds
  /\ UNCHANGED <<genArgs, stack, status, result, log, call, fetchVars, kepler,
                 cache, ereq, epc, ids, expanded_ids, out, eresponse, suspended, active>>

\* Lines 715-735: a request arrives; the handler answers from the cache, or
\* builds ids and expanded_ids and suspends in the first live attempt.
EphemStart(s) ==
  /\ active = 0
  /\ epc[s] = "idle"
  /\ LET c == get_cached(cache, CacheKey(ereq[s]), now)
         l == WithSun[SplitIds[ereq[s].horizons_ids]]
     IN  IF c.hit
         THEN /\ eresponse' = [eresponse EXCEPT ![s] = c.data]
              /\ epc' = [epc EXCEPT ![s] = "done"]
              /\ UNCHANGED <<ids, expanded_ids, out>>
         ELSE /\ ids' = [ids EXCEPT ![s] = l]
              /\ expanded_ids' =
                   [expanded_ids EXCEPT ![s] = ExpandedIds(l, ereq[s].include_moons)]
              /\ out' = [out EXCEPT ![s] = <<>>]
              /\ epc' = [epc EXCEPT ![s] = "await"]
              /\ UNCHANGED eresponse
  /\ UNCHANGED <<genArgs, stack, status, result, log, call, fetchVars, kepler,
                 cache, now, ereq, suspended, active>>

\* The id the for loop of line 733 stands at: every turn appends one entry.
CurrentId(s) == expanded_ids[s][Len(out[s]) + 1]

\* Lines 735 and 646-649: the awaited request of the live attempt completes,
\* with an answer or an error, and the coroutine of request s resumes.
EphemResume(s) ==
  /\ active = 0
  /\ epc[s] = "await"
  /\ \E resp \in EphemResponses(CurrentId(s)) : response' = resp
  /\ req' = [command |-> CurrentId(s), start |-> ereq[s].start, stop |-> ereq[s].stop,
             step |-> Chars[TextOf[ereq[s].step]], center |-> ereq[s].center]
  /\ fpc' = "live"
  /\ active' = s
  /\ epc' = [epc EXCEPT ![s] = "fetch"]
  /\ UNCHANGED <<genArgs, stack, status, result, log, call, fresult, kepler,
                 cache, now, ereq, ids, expanded_ids, out, eresponse, suspended>>

\* Line 647: the client of request s is closed and its coroutine resumes
\* behind the async with block.
EphemExit(s) ==
  /\ active = 0
  /\ epc[s] = "exit"
  /\ response' = suspended[s]
  /\ suspended' = [suspended EXCEPT ![s] = NoResponse]
  /\ req' = [command |-> CurrentId(s), start |-> ereq[s].start, stop |-> ereq[s].stop,
             step |-> Chars[TextOf[ereq[s].step]], center |-> ereq[s].center]
  /\ fpc' = "exit"
  /\ active' = s
  /\ epc' = [epc EXCEPT ![s] = "fetch"]
  /\ UNCHANGED <<genArgs, stack, status, result, log, call, fresult, kepler,
                 cache, now, ereq, ids, expanded_ids, out, eresponse>>

\* Lines 736 and 743-744: the result of the fetch is appended; after the last
\* id the response is stored and returned, otherwise the next live attempt
\* suspends the coroutine. (The except branch of lines 737-741 needs an
\* exception out of fetch_horizons_vectors; none leaves it.) The frames of
\* the finished calls are gone.
EphemAppend(s) ==
  /\ active = s
  /\ fpc = "done"
  /\ LET o == Append(out[s], fresult)
     IN  /\ out' = [out EXCEPT ![s] = o]
         /\ IF Len(o) = Len(expanded_ids[s])
            THEN /\ cache' = set_cached(cache, CacheKey(ereq[s]), o, now)
                 /\ eresponse' = [eresponse EXCEPT ![s] = o]
                 /\ epc' = [epc EXCEPT ![s] = "done"]
            ELSE /\ epc' = [epc EXCEPT ![s] = "await"]
                 /\ UNCHANGED <<cache, eresponse>>
  /\ active' = 0
  /\ fpc' = "none"
  /\ req' = NoRequest
  /\ response' = NoResponse
  /\ fresult' = NoResult
  /\ body_id' = ""
  /\ start' = BadText
  /\ stop' = BadText
  /\ step' = <<>>
  /\ stack' = <<>>
  /\ status' = "idle"
  /\ result' = <<>>
  /\ log' = <<>>
  /\ UNCHANGED <<call, kepler, now, ereq, ids, expanded_ids, suspended>>

NextEphem ==
  \/ Tick
  \/ \E s \in Slots : EphemStart(s)
  \/ \E s \in Slots : EphemResume(s)
  \/ LiveAttempt
  \/ \E s \in Slots : EphemExit(s)
  \/ LiveExit
  \/ FallbackCall
  \/ Generate
  \/ FetchReturn
  \/ \E s \in Slots : EphemAppend(s)

SpecEphem == InitEphem /\ [][NextEphem]_vars

-----------------------------------------------------------------------------
(* Vocabulary of the properties.                                           *)

StartDT == FromIsoFormat(start)

StopDT == FromIsoFormat(stop)

StepVal == ParsedStep(step)

\* Both texts are offset-free ISO texts.
NaiveWindow == StartDT.ok /\ StopDT.ok /\ ~StartDT.tz /\ ~StopDT.tz

\* The step as the loop adds it: timedelta(hours=step_hours).
StepDelta == StepTimedelta(StepVal.val)

SixHours == Timedelta(DefaultStep)

\* A timedelta above zero; one of zero or less.
DeltaPositive(d) ==
  d.err = "none" /\ (d.days > 0 \/ (d.days = 0 /\ d.seconds + d.microseconds > 0))

DeltaNegative(d) == d.err = "none" /\ d.days < 0

DeltaNonPositive(d) == d.err = "none" /\ ~DeltaPositive(d)

\* k * d for an integer k of at most four digits. A product of more days
\* than the datetime range has is cut to the first number of days outside it.
TimesDelta(d, k) ==
  LET us   == k * d.microseconds
      sec  == k * d.seconds + us \div 1000000
      size == IF k < 0 THEN 0 - k ELSE k
      lim  == IF k = 0 THEN 0 ELSE RangeDays \div size + 1
      far  == k # 0 /\ (d.days > lim \/ d.days < 0 - lim)
      up   == (d.days > 0) = (k > 0)
  IN  [err |-> "none",
       days |-> IF far THEN (IF up THEN RangeDays + 1 ELSE 0 - RangeDays - 2)
                ELSE k * d.days + sec \div 86400,
       seconds |-> sec % 86400,
       microseconds |-> us % 1000000]

\* dt + k * d: [err, t]
Plus(dt, d, k) == DatetimeAdd[Instant(dt.tz, dt.h, dt.s, dt.us), TimesDelta(d, k)]

\* start + k * d > stop and start + k * d >= stop, for a timedelta d that is
\* not zero; a sum outside the datetime range lies on the side it left by.
Beyond(d, k) ==
  LET r == Plus(StartDT, d, k)
  IN  IF r.err # "none" THEN DeltaPositive(d) = (k > 0) ELSE Earlier(StopDT, r.t)

AtOrBeyond(d, k) ==
  LET r == Plus(StartDT, d, k)
  IN  IF r.err # "none" THEN DeltaPositive(d) = (k > 0) ELSE NotLater(StopDT, r.t)

\* floor((stop - start) / d) = q, for a timedelta d that is not zero
IsQuotient(d, q) ==
  IF DeltaPositive(d) THEN ~Beyond(d, q) /\ Beyond(d, q + 1)
  ELSE AtOrBeyond(d, q) /\ ~AtOrBeyond(d, q + 1)

\* floor((stop - start) / d) + 1 = n
IsExpected(d, n) == IsQuotient(d, n - 1)

\* floor((stop - start) / d) + 1 <= 1000
ExpectedInCap(d) ==
  IF DeltaPositive(d) THEN Beyond(d, max_positions) ELSE ~AtOrBeyond(d, max_positions)

\* The loop meets no instant outside the datetime range: the instant after
\* stop for a positive step, the 1000th instant after start otherwise.
StaysInRange(d) ==
  \/ Earlier(StopDT, StartDT)
  \/ DeltaPositive(d) /\ Plus(StopDT, d, 1).err = "none"
  \/ DeltaNonPositive(d) /\ Plus(StartDT, d, max_positions).err = "none"

Logged(text) == \E k \in 1..Len(log) : log[k][1] = text

NoErrorLogged ==
  /\ ~Logged("Error generating positions")
  /\ ~Logged("Error generating moon positions")

Returned == call = "generate_orbital_positions" /\ status = "returned"

\* <number>h or <number>d, blanks allowed around the number
WellFormedStep(s) ==
  /\ s # <<>>
  /\ s[Len(s)] \in {"h", "d"}
  /\ ParseFloat[SubSeq(s, 1, Len(s) - 1)].ok

-----------------------------------------------------------------------------
(* C1 - series length.                                                     *)

\* C1 as stated: for any registry body (the star included), any window and
\* any step the parser accepts (negative steps included; a zero step, for
\* which the quotient is undefined, left aside), the returned series has
\* floor((stop-start)/step)+1 samples whenever that value is at most 1000.
C1_LengthAsClaimed ==
  (/\ Returned
   /\ body_id \in RegistryIds
   /\ StartDT.ok /\ StopDT.ok /\ StartDT.tz = StopDT.tz
   /\ StepVal.ok
   /\ DeltaPositive(StepDelta) \/ DeltaNegative(StepDelta)
   /\ ExpectedInCap(StepDelta))
  => IsExpected(StepDelta, Len(result))

-----------------------------------------------------------------------------
(* C2 - the cap.                                                           *)

\* C2: in every state of a generation call, no series (being built, handed
\* over as the parent's, or returned) holds more than 1000 samples, the loop
\* has run at most 1000 turns, and a series cut at the cap is returned
\* without any error being reported.
C2_Cap ==
  /\ \A k \in 1..Len(stack) :
       /\ Len(stack[k].positions) <= 1000
       /\ Len(stack[k].parent_positions) <= 1000
       /\ stack[k].position_count <= 1000
  /\ Len(result) <= 1000
  /\ (status = "returned" /\ Len(result) = 1000) => NoErrorLogged

\* The loop stands at its 1000th sample with instants of the window left.
C2_Witness ==
  /\ stack # <<>>
  /\ Top.pc = "loop"
  /\ Len(Top.positions) = 1000
  /\ DeltaPositive(StepTimedelta(Top.step_hours))
  /\ NotLater(Top.current_time, Top.stop_date)

-----------------------------------------------------------------------------
(* C3 - empty window.                                                      *)

\* C3 as stated: for every registry body and every parsable window with
\* start > stop the call returns the empty series and reports no error.
C3_EmptyWindowAsClaimed ==
  (/\ Returned
   /\ body_id \in RegistryIds
   /\ StartDT.ok /\ StopDT.ok /\ StartDT.tz = StopDT.tz
   /\ Earlier(StopDT, StartDT))
  => (result = <<>> /\ NoErrorLogged)

-----------------------------------------------------------------------------
(* C4 - malformed window.                                                  *)

\* C4 as stated: for every registry body, moons included, a malformed start or
\* stop yields exactly one sample: the given start text, (a, 0, 0), (0, 0, 0).
C4_MalformedAsClaimed ==
  (/\ Returned
   /\ body_id \in RegistryIds
   /\ (~StartDT.ok \/ ~StopDT.ok))
  => result = <<[t |-> start, r |-> XAxis(CELESTIAL_OBJECTS[body_id].a), v |-> <<>>]>>

\* C4 as amended: a malformed start or stop yields that single sample for
\* every registry body that is not a moon, and the empty series for a moon.
C4_Malformed ==
  (/\ Returned
   /\ body_id \in RegistryIds
   /\ (~StartDT.ok \/ ~StopDT.ok))
  => IF CELESTIAL_OBJECTS[body_id].type = "moon"
     THEN result = <<>>
     ELSE result = <<[t |-> start, r |-> XAxis(CELESTIAL_OBJECTS[body_id].a),
                      v |-> <<>>]>>

\* A planet's call with a date-only start and a malformed stop has returned
\* its one sample, stamped with the text as given.
C4_Witness ==
  /\ Returned
  /\ body_id \in RegistryIds
  /\ CELESTIAL_OBJECTS[body_id].type = "planet"
  /\ start.form = "date"
  /\ ~StopDT.ok
  /\ Len(result) = 1
  /\ result[1].t = start

-----------------------------------------------------------------------------
(* C5 - lenient step.                                                      *)

\* C5 as stated: a step text that is not <number>h or <number>d is a step of 6
\* hours: over a window of offset-free texts a body of non-zero period gets
\* its samples at start, start+6h, ... (none when start > stop, at most
\* 1000), and no error is reported.
C5_DefaultStepAsClaimed ==
  (/\ Returned
   /\ body_id \in RegistryIds
   /\ CELESTIAL_OBJECTS[body_id].period # 0
   /\ NaiveWindow
   /\ ~WellFormedStep(step))
  => /\ NoErrorLogged
     /\ IF Earlier(StopDT, StartDT) THEN result = <<>>
        ELSE IF ~ExpectedInCap(SixHours) THEN Len(result) = max_positions
        ELSE IsExpected(SixHours, Len(result))
     /\ \A k \in 1..Len(result) :
          result[k].t = IsoFormat(Plus(StartDT, SixHours, k - 1).t)

-----------------------------------------------------------------------------
(* C6 - zero period.                                                       *)

\* C6 as stated: for the star (period 0) the call does not take the error
\* path and returns one sample per instant of the window, as for a planet.
C6_StarAsClaimed ==
  (/\ Returned
   /\ body_id = "10"
   /\ NaiveWindow
   /\ NotLater(StartDT, StopDT)
   /\ StepVal.ok /\ DeltaPositive(StepDelta)
   /\ StaysInRange(StepDelta))
  => /\ NoErrorLogged
     /\ IF ~ExpectedInCap(StepDelta) THEN Len(result) = max_positions
        ELSE IsExpected(StepDelta, Len(result))

-----------------------------------------------------------------------------
(* C7 - no exception leaves the call.                                      *)

\* C7: for every body id, known or not, and every start, stop and step text,
\* no exception leaves generate_orbital_positions: a call under way stands, in
\* its innermost frame, at a line of one of the two functions (the frames
\* below wait for the parent's series), and a finished call has returned a
\* list of samples.
C7_NeverRaises ==
  /\ status \in {"running", "returned"}
  /\ status = "running" =>
       /\ stack # <<>>
       /\ Top.pc \in {"entry", "got_parent", "try", "loop", "except"}
       /\ \A k \in 1..(Len(stack) - 1) : stack[k].pc = "await_parent"
  /\ status = "returned" =>
       /\ stack = <<>>
       /\ \A k \in 1..Len(result) : DOMAIN result[k] = {"t", "r", "v"}

\* A moon's call has returned after the parent call and the moon path each
\* absorbed an exception.
C7_Witness ==
  /\ Returned
  /\ Logged("Error generating positions")
  /\ Logged("Error generating moon positions")

-----------------------------------------------------------------------------
(* C8 - the fallback of fetch_horizons_vectors.                            *)

SomeOk(kinds) == \E k \in 1..Len(kinds) : kinds[k] = "ok"

\* The live attempt yields no parsable state: the request failed, the status
\* is not 200, the body is no JSON object, or neither the "data" list nor the
\* $$SOE block of "result" holds a row that parses.
NoParsableState(resp) ==
  \/ resp.kind = "exception"
  \/ resp.status # 200
  \/ resp.json # "dict"
  \/ /\ ~(resp.data.present /\ resp.data.iterable /\ SomeOk(resp.data.rows))
     /\ ~(resp.result.present /\ resp.result.text /\ resp.result.soe
          /\ SomeOk(resp.result.lines))

\* C8: whenever the live attempt yields no parsable state,
\* fetch_horizons_vectors does not raise, and the result it returns is
\* {id, center, states} with the states the list returned by
\* generate_orbital_positions called with the request's id, start, stop and
\* step.
C8_FallbackOnFailure ==
  /\ fpc # "raised"
  /\ (fpc = "done" /\ NoParsableState(response)) =>
       /\ status = "returned"
       /\ genArgs = <<req.command, req.start, req.stop, req.step>>
       /\ fresult = [id |-> req.command, center |-> req.center, states |-> result]

\* A 200 response whose rows and block lines all fail to parse was answered
\* with the generated series of the requested body.
C8_Witness ==
  /\ fpc = "done"
  /\ response.status = 200
  /\ response.data.rows = <<"bad", "bad">>
  /\ response.result.lines = <<"short", "bad">>
  /\ Len(fresult.states) = 5
  /\ fresult.states = result
  /\ fresult.id = "301"

-----------------------------------------------------------------------------
(* C9 - moon composition.                                                  *)

\* The text of the k-th instant of a moon loop.
MoonInstant(f, k) ==
  IsoFormat(Plus(f.start_date, StepTimedelta(f.step_hours), k - 1).t)

InParent(f, text) == \E j \in 1..Len(f.parent_positions) : f.parent_positions[j].t = text

\* The instants generated so far that have a parent sample of equal text.
MatchedInstants(f) ==
  SelectSeq([k \in 1..f.position_count |-> MoonInstant(f, k)],
            LAMBDA text : InParent(f, text))

\* C9: at every turn of the moon loop, the samples emitted so far are, in
\* order, those of the instants that have a parent sample of equal timestamp,
\* each with position = that parent sample's position + the moon's own offset
\* at the instant; an instant without such a parent sample has no sample.
C9_Composition ==
  \A i \in 1..Len(stack) :
    (stack[i].fn = "gmp" /\ stack[i].pc = "loop") =>
      LET f == stack[i]
      IN  /\ Len(f.positions) = Len(MatchedInstants(f))
          /\ \A k \in 1..Len(f.positions) :
               /\ f.positions[k].t = MatchedInstants(f)[k]
               /\ \E j \in 1..Len(f.parent_positions) :
                    /\ f.parent_positions[j].t = f.positions[k].t
                    /\ f.positions[k].r =
                         f.parent_positions[j].r
                           \o <<Term("pos", f.id, FromIsoFormat(f.positions[k].t))>>

\* A moon loop has passed instants with and without a parent sample: the
\* parent series is daily, the moon's step is 6 hours.
C9_Witness ==
  /\ stack # <<>>
  /\ Top.fn = "gmp"
  /\ Top.pc = "loop"
  /\ Top.position_count = 5
  /\ Len(Top.positions) = 2
  /\ Len(Top.parent_positions) = 2

-----------------------------------------------------------------------------
(* C11 - order of the timestamps.                                          *)

\* C11 as stated: in every returned series, for any body, window and accepted
\* step (a zero or negative step included), each sample's instant is later
\* than the one before it.
C11_IncreasingAsClaimed ==
  (Returned /\ StepVal.ok)
  => \A k \in 1..(Len(result) - 1) :
       Earlier(FromIsoFormat(result[k].t), FromIsoFormat(result[k + 1].t))

-----------------------------------------------------------------------------
(* C13 - the registry is a two-level tree.                                 *)

\* The body a waiting frame recurses on is the parent of its moon.
RecursionOnParent ==
  /\ Len(stack) <= 2
  /\ Len(stack) = 2 =>
       /\ stack[1].fn = "gop"
       /\ stack[1].pc = "await_parent"
       /\ CELESTIAL_OBJECTS[stack[1].id].type = "moon"
       /\ stack[2].id = CELESTIAL_OBJECTS[stack[1].id].parent

\* C13 as stated: every moon of the registry has a parent that is a registry
\* entry of type planet, no other entry has a parent, and the generator
\* recurses at most one level, onto a planet.
C13_TwoLevelAsClaimed ==
  /\ \A id \in RegistryIds :
       IF CELESTIAL_OBJECTS[id].type = "moon"
       THEN /\ CELESTIAL_OBJECTS[id].parent \in RegistryIds
            /\ CELESTIAL_OBJECTS[CELESTIAL_OBJECTS[id].parent].type = "planet"
       ELSE CELESTIAL_OBJECTS[id].parent = ""
  /\ RecursionOnParent
  /\ Len(stack) = 2 => CELESTIAL_OBJECTS[stack[2].id].type = "planet"

\* C13 as amended: every moon of the registry has a parent that is a registry
\* entry of type planet or dwarf_planet, no other entry has a parent, and
\* the generator recurses at most one level: the body it recurses on is the
\* moon's parent, which is no moon.
C13_TwoLevel ==
  /\ \A id \in RegistryIds :
       IF CELESTIAL_OBJECTS[id].type = "moon"
       THEN /\ CELESTIAL_OBJECTS[id].parent \in RegistryIds
            /\ CELESTIAL_OBJECTS[CELESTIAL_OBJECTS[id].parent].type
                 \in {"planet", "dwarf_planet"}
       ELSE CELESTIAL_OBJECTS[id].parent = ""
  /\ RecursionOnParent
  /\ Len(stack) = 2 => CELESTIAL_OBJECTS[stack[2].id].type \in {"planet", "dwarf_planet"}

\* Charon's call waits while the loop of its parent, the dwarf planet Pluto,
\* runs one level below.
C13_Witness ==
  /\ Len(stack) = 2
  /\ stack[1].id = "901"
  /\ stack[2].id = "999"
  /\ stack[2].pc = "loop"
  /\ Len(stack[2].positions) = 2

-----------------------------------------------------------------------------
(* C18 - a moon's series against its parent's.                             *)

Instants(series) == [k \in 1..Len(series) |-> series[k].t]

\* C18 as stated: for every moon and every parsable start, stop and step, the
\* series that generate_moon_positions is about to return has the length and
\* the timestamps, in order, of the parent's series over the same window.
C18_SameInstantsAsClaimed ==
  (/\ call = "generate_orbital_positions"
   /\ status = "running"
   /\ stack # <<>>
   /\ Top.fn = "gmp"
   /\ StartDT.ok /\ StopDT.ok /\ StepVal.ok)
  => /\ Top.pc # "except"
     /\ (Top.pc = "loop" /\ MoonLoopCond(Top) = "false")
          => Instants(Top.positions) = Instants(Top.parent_positions)

\* C18 as amended: for every moon, every window of offset-free texts and
\* every step that is a finite number (zero and negative steps and windows
\* cut at the cap included) and keeps the loop inside the datetime range,
\* the moon path takes no error branch and the series it is about to return
\* has the length and the timestamps, in order, of the parent's series over
\* the same window.
C18_SameInstants ==
  (/\ call = "generate_orbital_positions"
   /\ status = "running"
   /\ stack # <<>>
   /\ Top.fn = "gmp"
   /\ NaiveWindow /\ StepVal.ok
   /\ StepDelta.err = "none"
   /\ StaysInRange(StepDelta))
  => /\ Top.pc # "except"
     /\ (Top.pc = "loop" /\ MoonLoopCond(Top) = "false")
          => Instants(Top.positions) = Instants(Top.parent_positions)

\* A moon loop over a one-day window at 6 hours has ended with the five
\* instants of its parent's series.
C18_Witness ==
  /\ call = "generate_orbital_positions"
  /\ stack # <<>>
  /\ Top.fn = "gmp"
  /\ Top.pc = "loop"
  /\ MoonLoopCond(Top) = "false"
  /\ Len(Top.positions) = 5
  /\ Len(Top.parent_positions) = 5
  /\ Top.positions[5].t = Text("naive", 48)

-----------------------------------------------------------------------------
(* C15 - the Kepler solution of a circular orbit.                          *)

\* C15 as stated: with eccentricity 0, for every mean anomaly M, the solution
\* after its 5 iterations has eccentric anomaly M, true anomaly M itself (not
\* only M modulo a full turn) and radius a.
C15_CircularAsClaimed ==
  (kepler.pc = "done" /\ kepler.e = 0)
  => /\ kepler.E = kepler.M
     /\ kepler.nu = kepler.M
     /\ kepler.r = <<kepler.a, 1000000000>>

\* The distance of two angles in units of 1e-9 rad, for angles less than
\* three grid units apart; a whole radian otherwise.
Apart(x, y) ==
  IF Abs(x.g - y.g) > 2 THEN 1000000000
  ELSE Abs((x.g - y.g) * 2 * HalfUnit + (x.d - y.d))

\* Two angles are two thousandths of a radian apart at most: what the
\* rounding of sin, cos, sqrt and atan2 can move a true anomaly by.
Close(x, y) == Apart(x, y) <= 2000000

\* -2 pi <= x <= 2 pi, decided exactly on the value of x.
InTurn(x) == ~Ahead(x.g - 2 * Pi, x.d) /\ ~Ahead(0 - 2 * Pi - x.g, 0 - x.d)

\* C15 as amended: with eccentricity 0, for every mean anomaly M, the
\* eccentric anomaly is M at every iteration and after the 5th, the radius
\* is a, and the true anomaly is a value from -2 pi to 2 pi that differs
\* from M by a multiple of 4 pi (up to the rounding of sin, cos and atan2):
\* it is M itself exactly when -2 pi <= M <= 2 pi, and a nano-radian beyond
\* 2 pi it is 4 pi less than M.
C15_Circular ==
  /\ (kepler.pc \in {"iterate", "radius", "done"} /\ kepler.e = 0)
       => kepler.E = kepler.M
  /\ (kepler.pc \in {"radius", "done"} /\ kepler.e = 0)
       => /\ \E j \in -2..2 : Close(kepler.nu, Angle(kepler.M.g - 4 * Pi * j, kepler.M.d))
          /\ InTurn(kepler.nu)
          /\ Close(kepler.nu, kepler.M) <=> InTurn(kepler.M)
  /\ (kepler.pc = "done" /\ kepler.e = 0)
       => kepler.r = <<kepler.a, 1000000000>>

\* The solution for M = 2 pi + 1e-9 is complete: E = M, true anomaly -2 pi,
\* r = a.
C15_Witness ==
  /\ kepler.pc = "done"
  /\ kepler.e = 0
  /\ kepler.n = 5
  /\ kepler.M = Angle(2 * Pi, 1)
  /\ kepler.E = Angle(2 * Pi, 1)
  /\ ~InTurn(kepler.M)
  /\ kepler.nu = Angle(0 - 2 * Pi, 0)
  /\ kepler.r = <<"149597870.7", 1000000000>>

-----
(* Vocabulary of the properties of the ephem handler.                      *)

\* The requested ids: the non-blank texts between the commas, in order, with
\* the Sun put in front when it is not among them.
Requested(parts) == WithSun[SplitIds[parts]]

\* The moons lists of the planets among l[k], l[k+1], ..., in order.
PlanetMoons[l \in Seq(STRING), k \in Nat] ==
  IF k > Len(l) THEN <<>>
  ELSE (IF l[k] \in RegistryIds /\ CELESTIAL_OBJECTS[l[k]].type = "planet"
        THEN CELESTIAL_OBJECTS[l[k]].moons
        ELSE <<>>) \o PlanetMoons[l, k + 1]

\* The expanded list of a request.
ExpectedIds(parts, include_moons) ==
  IF include_moons
  THEN Requested(parts) \o PlanetMoons[Requested(parts), 1]
  ELSE Requested(parts)

EntryIds(entries) == [k \in 1..Len(entries) |-> entries[k].id]

\* The entry holds states read from the live source.
IsLive(entry) ==
  /\ entry.states # <<>>
  /\ entry.states[1].r # <<>>
  /\ entry.states[1].r[1][1] = "live"

Done(s) == s \in DOMAIN epc /\ epc[s] = "done"

-----------------------------------------------------------------------------
(* C12 - moon expansion.                                                   *)

\* C12 as stated: the response of a request has exactly one entry per element
\* of the list made of the requested ids followed, with include_moons set, by
\* the moons lists of the requested planets, in that order and without
\* deduplication; two entries of the same id hold equal results.
C12_ExpansionAsClaimed ==
  \A s \in DOMAIN epc :
    Done(s) =>
      /\ EntryIds(eresponse[s]) =
           ExpectedIds(ereq[s].horizons_ids, ereq[s].include_moons)
      /\ \A i, j \in 1..Len(eresponse[s]) :
           eresponse[s][i].id = eresponse[s][j].id
             => eresponse[s][i] = eresponse[s][j]

\* C12 as amended: the response has exactly one entry per element of that
\* list, in that order and without deduplication; two entries of the same id
\* come each from its own fetch: they have the same id and center, and equal
\* states when both fetches were answered alike (both by the live source or
\* both by the generator).
C12_Expansion ==
  \A s \in DOMAIN epc :
    Done(s) =>
      /\ EntryIds(eresponse[s]) =
           ExpectedIds(ereq[s].horizons_ids, ereq[s].include_moons)
      /\ \A i, j \in 1..Len(eresponse[s]) :
           eresponse[s][i].id = eresponse[s][j].id
             => /\ eresponse[s][i].center = eresponse[s][j].center
                /\ IsLive(eresponse[s][i]) = IsLive(eresponse[s][j])
                     => eresponse[s][i] = eresponse[s][j]

\* The request "301,399" with moons is answered with the entries 10, 301,
\* 399, 301; both entries of the Moon were generated and are equal.
C12_Witness ==
  /\ Done(1)
  /\ ereq[1].horizons_ids = IdTexts.twice
  /\ EntryIds(eresponse[1]) = <<"10", "301", "399", "301">>
  /\ ~IsLive(eresponse[1][2])
  /\ Len(eresponse[1][2].states) = 2
  /\ eresponse[1][4] = eresponse[1][2]

-----------------------------------------------------------------------------
(* C14 - unknown ids.                                                      *)

\* C14: a call of generate_orbital_positions for an id that is not in the
\* registry returns the empty series from its first line (no frame of it
\* ever parses the window) and nothing is raised; in the response of an ephem
\* request the entry of such an id, when generated, has no states, and the
\* entries of the other ids are those of the request without it: the same
\* ids in the same order, each entry equal to the other request's entry of
\* that id answered alike.
C14_UnknownId ==
  /\ status # "raised"
  /\ fpc # "raised"
  /\ (stack # <<>> /\ stack[1].id \notin RegistryIds)
       => (Len(stack) = 1 /\ Top.pc = "entry")
  /\ (fpc = "done" /\ req.command \notin RegistryIds /\ ~IsLive(fresult))
       => (fresult.states = <<>> /\ log[Len(log)][1] = "No orbital elements")
  /\ \A s \in DOMAIN epc : \A k \in 1..Len(out[s]) :
       (out[s][k].id \notin RegistryIds /\ ~IsLive(out[s][k]))
         => out[s][k].states = <<>>
  /\ (Done(1) /\ Done(2) /\ ereq[1].horizons_ids = IdTexts.unknown)
       => /\ SelectSeq(EntryIds(eresponse[1]), LAMBDA id : id \in RegistryIds)
               = EntryIds(eresponse[2])
          /\ \A i \in 1..Len(eresponse[1]) : \A j \in 1..Len(eresponse[2]) :
               (/\ eresponse[1][i].id = eresponse[2][j].id
                /\ IsLive(eresponse[1][i]) = IsLive(eresponse[2][j]))
               => eresponse[1][i] = eresponse[2][j]

\* The request "000, 399 ," over a malformed window has been computed beside
\* the request "399": the unknown id has an entry without states, and Earth
\* has its fallback sample in both responses.
C14_Witness ==
  /\ Done(1)
  /\ Done(2)
  /\ ereq[1].horizons_ids = IdTexts.unknown
  /\ ereq[1].start = BadText
  /\ ids[1] # <<>>
  /\ ids[2] # <<>>
  /\ EntryIds(eresponse[1]) = <<"10", "000", "399", "301">>
  /\ eresponse[1][2].states = <<>>
  /\ Len(eresponse[1][3].states) = 1
  /\ eresponse[2][2] = eresponse[1][3]

-----------------------------------------------------------------------------
(* C16 - the star and the generator.                                       *)

\* C16 as stated: in no sequence of ephem requests is
\* generate_orbital_positions called with the id of the star.
C16_StarNotGeneratedAsClaimed ==
  ~(/\ call = "ephem"
    /\ status = "running"
    /\ stack # <<>>
    /\ stack[1].fn = "gop"
    /\ stack[1].id = "10")

-----------------------------------------------------------------------------
(* C17 - the Sun's entry.                                                  *)

\* C17 as stated: in the response of every ephem request, whatever the list
\* and order of the requested ids, the Sun's entry is present and is the
\* first.
C17_SunFirstAsClaimed ==
  \A s \in DOMAIN epc :
    Done(s) =>
      /\ eresponse[s] # <<>>
      /\ eresponse[s][1].id = "10"

-----------------------------------------------------------------------------
(* C19 - the moons lists.                                                  *)

\* C19 as stated: every id that moon expansion takes from the moons list of
\* a requested body is a registry entry of type moon whose parent is a
\* requested body listing it, and the generator is never run for an id it
\* does not know that came from the expansion.
C19_MoonListsAsClaimed ==
  \A s \in DOMAIN epc :
    /\ \A k \in (Len(ids[s]) + 1)..Len(expanded_ids[s]) :
         /\ expanded_ids[s][k] \in RegistryIds
         /\ CELESTIAL_OBJECTS[expanded_ids[s][k]].type = "moon"
         /\ \E j \in 1..Len(ids[s]) :
              CELESTIAL_OBJECTS[expanded_ids[s][k]].parent = ids[s][j]
    /\ (active = s /\ stack # <<>> /\ Len(out[s]) >= Len(ids[s]))
         => stack[1].id \in RegistryIds

-----------------------------------------------------------------------------
(* C20 - the cache.                                                        *)

\* Every stored response is complete: one entry per id of the expanded list
\* of the request its key names, in order, and stored no later than now.
CacheComplete ==
  \A key \in DOMAIN cache :
    /\ EntryIds(cache[key].data) = ExpectedIds(<< <<key[2]>> >>, key[7])
    /\ cache[key].t <= now

\* What one step does to request s.
CacheStep(s) ==
  LET key == CacheKey(ereq[s])
  IN  /\ (epc[s] = "idle" /\ epc'[s] # "idle") =>
           IF key \in DOMAIN cache /\ now - cache[key].t < 6 * 3600
           THEN /\ epc'[s] = "done"
                /\ eresponse'[s] = cache[key].data
                /\ out'[s] = <<>>
                /\ UNCHANGED <<cache, active, fetchVars, genArgs, stack, status, result>>
           ELSE /\ epc'[s] = "await"
                /\ UNCHANGED cache
      /\ (epc[s] # "done" /\ epc'[s] = "done" /\ epc[s] # "idle") =>
           /\ cache' = (key :> [t |-> now, data |-> eresponse'[s]]) @@ cache
           /\ Len(eresponse'[s]) = Len(expanded_ids[s])
      /\ epc[s] = "done" => (epc'[s] = "done" /\ eresponse'[s] = eresponse[s])

\* C20: a request that arrives while the entry of its key is less than 6
\* hours old returns the stored response at once, without a live attempt or
\* a run of the generator, whatever produced the stored response; a request
\* that finds no entry, or one of 6 hours or more, is recomputed and its
\* response replaces the entry when it completes; and the cache holds
\* complete responses only, also when identical requests interleave.
C20_Cache == [][(\A s \in DOMAIN epc : CacheStep(s)) /\ CacheComplete']_vars

\* The second of two requests of the same texts, written in two ways,
\* arrived 3 hours after the first had stored a response made of generated
\* series, and was answered with it without building its lists.
C20_Witness ==
  /\ Done(1)
  /\ Done(2)
  /\ ereq[1] # ereq[2]
  /\ CacheKey(ereq[1]) = CacheKey(ereq[2])
  /\ ids[1] # <<>>
  /\ ids[2] = <<>>
  /\ out[2] = <<>>
  /\ eresponse[2] = eresponse[1]
  /\ \A k \in 1..Len(eresponse[2]) : ~IsLive(eresponse[2][k])
  /\ cache[CacheKey(ereq[2])].t = 0
  /\ now = TickSeconds

-----------------------------------------------------------------------------
(* C21 - termination of generate_orbital_positions.                        *)

Terminated == status \in {"returned", "raised"}

\* The loop of a frame has made position_count whole turns: never more than
\* max_positions, with at most one sample each (one more in the except
\* clause, from the turn that was left in line 536 or 618); and with a step
\* of zero or less on a window that lets the loop start, the condition of
\* line 491 turns false through the count alone.
LoopBounded(f) ==
  /\ f.position_count <= max_positions
  /\ Len(f.positions) <= f.position_count + (IF f.pc = "except" THEN 1 ELSE 0)
  /\ (/\ f.pc = "loop"
      /\ DeltaNonPositive(StepTimedelta(f.step_hours))
      /\ Comparable(f.current_time, f.stop_date)
      /\ NotLater(f.start_date, f.stop_date))
     => /\ NotLater(f.current_time, f.stop_date)
        /\ (IF f.fn = "gop" THEN PlanetLoopCond(f) ELSE MoonLoopCond(f)) = "false"
             <=> f.position_count = max_positions

\* The call that waits in line 457 is the outermost one, and the call it
\* waits for makes no call of its own.
OneLevel ==
  /\ Len(stack) <= 2
  /\ \A k \in 1..Len(stack) :
       stack[k].pc \in {"await_parent", "got_parent"} => k = 1 /\ stack[k].fn = "gop"
  /\ Len(stack) = 2 => stack[1].pc = "await_parent" /\ stack[2].fn = "gop"

CallBounded ==
  /\ \A k \in 1..Len(stack) : LoopBounded(stack[k])
  /\ OneLevel
  /\ Len(result) <= max_positions

\* C21: every call of generate_orbital_positions ends, for every body and
\* every start, stop and step: no loop makes more than 1000 turns, also with
\* a step of zero or less, where the current instant never passes stop and
\* the count alone ends the loop, and the call made for a moon's parent makes
\* no further call.
C21_Terminates == []CallBounded /\ <>Terminated

\* The call for the Moon with the step "0h" has returned: the loop of its
\* parent and its own loop each ended at the 1000th sample of the same instant.
C21_Witness ==
  /\ status = "returned"
  /\ body_id = "301"
  /\ step = <<"0", "h">>
  /\ Len(result) = max_positions
  /\ result[1].t = result[max_positions].t
  /\ \E k \in 1..Len(log) : log[k] = Msg("Generated positions", "399")

====
